---- MODULE Spec2Model ----
(***************************************************************************)
(* A model of the chm-kit codec: the bit reader, the canonical Huffman     *)
(* tables, the LZX encoder and decoder, the CHM encoder, the CHM parser    *)
(* and the file reconstructor.  Every component is translated from its     *)
(* TypeScript source; a thrown Error is a result with ok = FALSE.          *)
(***************************************************************************)
EXTENDS Integers, Sequences, FiniteSets, TLC

VARIABLES
    buffer,       \* BitReader.buffer: the bytes under the reader
    position,     \* BitReader.position: byte cursor
    bitPosition,  \* BitReader.bitPosition: bit cursor inside the byte
    call,         \* the last call made on the reader and what it returned
    prevCall,     \* the call before it
    hLengths,     \* the code-length vector given to buildTreeFromLengths
    hTree,        \* what buildTreeFromLengths returned or threw
    symbolsWritten, \* the symbols whose codes were written to the stream
    bitsWritten,  \* the bits of those codes, in order
    decoded,      \* what each decodeSymbol call returned or threw
    huffPc,       \* where the Huffman scenario stands
    lzxInput,     \* the bytes given to LZXEncoder.compress
    lzxConfig,    \* the LZXConfig of the encoder
    lzxCompressed, \* what compress returned
    lzxWanted,    \* the uncompressedSize asked of LZXDecoder.decode
    lzxResult,    \* what decode returned or threw
    lzxDecoder,   \* the LZXDecoder that decodes: its windowSize, resetInterval and window
    lzxPc,        \* where the LZX scenario stands
    chmOrigin,    \* who wrote the archive in buffer: CHMEncoder or another writer
    chmPacked,    \* the files and the directory CHMEncoder.encode worked with
    chmParsed,    \* what ParserOperations.parse returned or threw
    extracted,    \* what each reconstructFile call on the shared reader returned
    chmPc,        \* where the archive scenario stands
    winSize,      \* SlidingWindow.size
    winData,      \* SlidingWindow.data
    winPosition,  \* SlidingWindow.position
    winCall,      \* the last call made on the window, what it returned, the window before it, the bytes written since the last reset
    winPc,        \* where the window scenario stands
    configFile,   \* chmkit.config.json in the working directory, as the file system holds it
    cachedConfig, \* config.ts: let cachedConfig
    configLoads,  \* how many times loadConfig has run
    configCall,   \* the last call made on the configuration and what it returned
    hdrInput,     \* the header record handed to a serializer: its kind, and the field set and its value
    hdrBytes,     \* the bytes the serializer returned
    hdrParsed,    \* what the header parser returned for them
    hdrPc,        \* where the header scenario stands
    rtStored,     \* the resetTable field of a ResetTableProcessor: null (set = FALSE) or the table of the last parse that returned
    rtCall,       \* the last call on the processor and what it returned
    decPc,             \* where LZXDecoder.decode stands: "idle", "blockLoop", "literalLengths", "lengthLengths", "symbols", "copy", "returned", "thrown"
    decWanted,         \* decode's uncompressedSize
    decResult,         \* decode's result buffer
    decOutputPosition, \* decode's outputPosition
    decBlock,          \* the block header read last
    decBlockData,      \* the block's result buffer
    decBlockOut,       \* decodeVerbatimBlock's outputPosition
    decTree,           \* readTreeLengths' count and i
    decWindow          \* the decoder's window

readerVars == <<buffer, position, bitPosition>>

callVars == <<call, prevCall>>

huffVars == <<hLengths, hTree, symbolsWritten, bitsWritten, decoded, huffPc>>

lzxVars == <<lzxInput, lzxConfig, lzxCompressed, lzxWanted, lzxResult, lzxDecoder, lzxPc>>

chmVars == <<chmOrigin, chmPacked, chmParsed, extracted, chmPc>>

winVars == <<winSize, winData, winPosition, winCall, winPc>>

configVars == <<configFile, cachedConfig, configLoads, configCall>>

hdrVars == <<hdrInput, hdrBytes, hdrParsed, hdrPc>>

rtVars == <<rtStored, rtCall>>

decVars == <<decPc, decWanted, decResult, decOutputPosition, decBlock, decBlockData,
            decBlockOut, decTree, decWindow>>

vars == <<readerVars, callVars, huffVars, lzxVars, chmVars, winVars, configVars, hdrVars, rtVars, decVars>>

\* what the reader scenario leaves alone, and what the Huffman scenario does
offReader == <<huffVars, lzxVars, chmVars, winVars, configVars, hdrVars, rtVars, decVars>>

offHuff == <<callVars, lzxVars, chmVars, winVars, configVars, hdrVars, rtVars, decVars>>

offLzx == <<callVars, huffVars, chmVars, winVars, configVars, hdrVars, rtVars, decVars>>

offChm == <<callVars, huffVars, lzxVars, winVars, configVars, hdrVars, rtVars, decVars>>

offWin == <<readerVars, callVars, huffVars, lzxVars, chmVars, configVars, hdrVars, rtVars, decVars>>

offConfig == <<readerVars, callVars, huffVars, lzxVars, chmVars, winVars, hdrVars, rtVars, decVars>>

offHdr == <<readerVars, callVars, huffVars, lzxVars, chmVars, winVars, configVars, rtVars, decVars>>

offProcessor == <<callVars, huffVars, lzxVars, chmVars, winVars, configVars, hdrVars, decVars>>

offDecodeSteps == <<callVars, huffVars, lzxVars, chmVars, winVars, configVars, hdrVars, rtVars>>

(***************************************************************************)
(* Bounds of the model.                                                    *)
(***************************************************************************)
MaxBuf == 5

MaxSkipPast == 1

MaxSymbols == 3

MaxCodeLen == 2

MaxStream == 2

MaxInput == 3

MaxReset == 3

MaxExtracts == 2

\* the largest window, the most calls on one window, the longest copy
MaxWindow == 3

MaxWinCalls == 3

MaxCopy == 5

\* the most calls made on the configuration
MaxConfigCalls == 4

\* the largest window of a decoder
MaxDecoderWindow == 4

MaxBlocks == 2

MaxBlockLength == 2

MaxOffset == 8

MaxWanted == 3

(***************************************************************************)
(* Arithmetic helpers.  JavaScript's << and | work on 32-bit signed        *)
(* integers; the helpers keep that width without leaving it.               *)
(***************************************************************************)
Pow2(n) == 2 ^ n

Min(a, b) == IF a < b THEN a ELSE b

Max(a, b) == IF a > b THEN a ELSE b

\* the value of a field that is not there
Undefined == 0 - 1

\* const x = value, then the statements that follow it: Body(x); the value is
\* computed before the statements run
With(value, Body(_)) == CHOOSE result \in {Body(x) : x \in {value}} : TRUE

\* -2^31, written without the literal 2^31
MinInt32 == (0 - 2147483647) - 1

\* (result << k) | bits as JavaScript computes it, for 1 <= k <= 8 and
\* 0 <= bits < 2^k: the low 32 - k bits of result move up, bit 31 is the sign.
ShlOr32(result, k, bits) ==
    LET top  == Pow2(31 - k)
        lo   == result % top
        sign == (result \div top) % 2
        mag  == lo * Pow2(k) + bits
    IN  IF sign = 1 THEN mag + MinInt32 ELSE mag

\* The n-bit binary writing, most significant bit first, of v >= 0.
BitsOf(v, n) == [i \in 1..n |-> IF n - i >= 31 THEN 0 ELSE (v \div Pow2(n - i)) % 2]

(***************************************************************************)
(* BitReader                                                               *)
(***************************************************************************)
\* The while loop of BitReader.read: the reader after the loop, and the value
\* or the throw ('End of buffer reached' leaves the cursor where it was).
RECURSIVE ReadLoop(_, _, _, _, _)
ReadLoop(buf, pos, bit, bitsLeft, result) ==
    IF bitsLeft <= 0
    THEN [ok |-> TRUE, err |-> "", value |-> result,
          position |-> pos, bitPosition |-> bit]
    ELSE IF pos >= Len(buf)
    THEN [ok |-> FALSE, err |-> "End of buffer reached", value |-> 0,
          position |-> pos, bitPosition |-> bit]
    ELSE LET currentByte   == buf[pos + 1]
             availableBits == 8 - bit
             bitsToRead    == Min(bitsLeft, availableBits)
             shift         == availableBits - bitsToRead
             extractedBits == (currentByte \div Pow2(shift)) % Pow2(bitsToRead)
             newResult     == ShlOr32(result, bitsToRead, extractedBits)
             newBit        == bit + bitsToRead
         IN  IF newBit >= 8
             THEN ReadLoop(buf, pos + 1, 0, bitsLeft - bitsToRead, newResult)
             ELSE ReadLoop(buf, pos, newBit, bitsLeft - bitsToRead, newResult)

\* BitReader.read(bits)
BitReader_read(buf, pos, bit, bits) ==
    IF bits <= 0 \/ bits > 32
    THEN [ok |-> FALSE, err |-> "Invalid bits count: must be between 1 and 32", value |-> 0,
          position |-> pos, bitPosition |-> bit]
    ELSE ReadLoop(buf, pos, bit, bits, 0)

\* peek that restores the byte position and forgets the bit position
BitReader_peek_KeepsBit(buf, pos, bit, bits) ==
    LET r == BitReader_read(buf, pos, bit, bits)
    IN  IF r.ok THEN [r EXCEPT !.position = pos] ELSE r

\* BitReader.peek(bits): read, then restore the cursor; a throw inside read
\* leaves the method before the restore.
BitReader_peek(buf, pos, bit, bits) ==
    LET r == BitReader_read(buf, pos, bit, bits)
    IN  IF r.ok
        THEN [r EXCEPT !.position = pos, !.bitPosition = bit]
        ELSE r

\* BitReader.skip(bits)
BitReader_skip(pos, bit, bits) ==
    LET totalBits == bit + bits
    IN  [position |-> pos + (totalBits \div 8), bitPosition |-> totalBits % 8]

\* BitReader.align()
BitReader_align(pos, bit) ==
    IF bit > 0
    THEN [position |-> pos + 1, bitPosition |-> 0]
    ELSE [position |-> pos, bitPosition |-> bit]

\* BitReader.hasMore()
BitReader_hasMore(buf, pos) == pos < Len(buf)

\* BitReader.setPosition(byte, bit)
BitReader_setPosition(buf, pos, bit, byte, newBit) ==
    IF byte < 0 \/ byte >= Len(buf)
    THEN [ok |-> FALSE, err |-> "Invalid byte position",
          position |-> pos, bitPosition |-> bit]
    ELSE IF newBit < 0 \/ newBit >= 8
    THEN [ok |-> FALSE, err |-> "Invalid bit position",
          position |-> pos, bitPosition |-> bit]
    ELSE [ok |-> TRUE, err |-> "", position |-> byte, bitPosition |-> newBit]

\* Buffer.slice(from, to) on a cursor that skip() may have moved past the end
Slice(buf, from, to) ==
    IF from >= Len(buf) THEN <<>> ELSE SubSeq(buf, from + 1, Min(to, Len(buf)))

\* readBytes without the align() call: the bytes are taken from the current
\* byte and the bit position stays
BinaryDataReader_readBytes_NoAlign(buf, pos, bit, bytes) ==
    IF pos + bytes > Len(buf)
    THEN [ok |-> FALSE, err |-> "Not enough data to read", data |-> <<>>,
          position |-> pos, bitPosition |-> bit]
    ELSE [ok |-> TRUE, err |-> "", data |-> Slice(buf, pos, pos + bytes),
          position |-> pos + bytes, bitPosition |-> bit]

\* BinaryDataReader.readBytes(bytes) (BitReader.readBytes is the same code):
\* align first, then copy; 'Not enough data to read' is thrown after the align.
BinaryDataReader_readBytes(buf, pos, bit, bytes) ==
    LET a == BitReader_align(pos, bit)
    IN  IF a.position + bytes > Len(buf)
        THEN [ok |-> FALSE, err |-> "Not enough data to read", data |-> <<>>,
              position |-> a.position, bitPosition |-> a.bitPosition]
        ELSE [ok |-> TRUE, err |-> "",
              data |-> Slice(buf, a.position, a.position + bytes),
              position |-> a.position + bytes, bitPosition |-> a.bitPosition]

\* Buffer.readUIntLE of a 1, 2, 4 or 8 byte slice, as 16-bit limbs, least
\* significant first (a value above 2^31 has no other exact form here).
RECURSIVE Limbs16(_)
Limbs16(data) ==
    IF Len(data) = 0 THEN <<>>
    ELSE IF Len(data) = 1 THEN <<data[1]>>
    ELSE <<data[1] + 256 * data[2]>> \o Limbs16(SubSeq(data, 3, Len(data)))

\* BinaryDataReader.readInt(bytes): the bytes are consumed before the switch,
\* so 'Invalid byte count' is thrown with the cursor already advanced.
BinaryDataReader_readInt(buf, pos, bit, bytes) ==
    LET r == BinaryDataReader_readBytes(buf, pos, bit, bytes)
    IN  IF ~r.ok THEN r
        ELSE IF bytes \in {1, 2, 4, 8}
        THEN [r EXCEPT !.data = Limbs16(r.data)]
        ELSE [r EXCEPT !.ok = FALSE, !.err = "Invalid byte count: must be 1, 2, 4, or 8", !.data = <<>>]

(***************************************************************************)
(* HuffmanTreeOperations                                                   *)
(***************************************************************************)
\* lengths.map((length, symbol) => ({symbol, length})).filter(length > 0)
CodedItems(lengths) ==
    SelectSeq([i \in 1..Len(lengths) |-> [symbol |-> i - 1, length |-> lengths[i]]],
              LAMBDA item : item.length > 0)

\* the comparator of the sort: by length, then by symbol
ItemBefore(a, b) ==
    IF a.length # b.length THEN a.length < b.length ELSE a.symbol < b.symbol

\* .sort(comparator): the symbols are distinct, so the order is total
RECURSIVE SortItems(_)
SortItems(items) ==
    IF Len(items) = 0 THEN <<>>
    ELSE LET k == CHOOSE i \in 1..Len(items) :
                      \A j \in 1..Len(items) : j = i \/ ItemBefore(items[i], items[j])
         IN  <<items[k]>> \o
             SortItems(SubSeq(items, 1, k - 1) \o SubSeq(items, k + 1, Len(items)))

\* The for loop of createCanonicalTree from item i on.
RECURSIVE AssignCodes(_, _, _, _, _)
AssignCodes(sorted, i, code, prevLength, tree) ==
    IF i > Len(sorted) THEN tree
    ELSE LET item    == sorted[i]
             grows   == item.length > prevLength
             shifted == IF grows THEN code * Pow2(item.length - prevLength) ELSE code
             length  == IF grows THEN item.length ELSE prevLength
         IN  AssignCodes(sorted, i + 1, shifted + 1, length,
                         [symbols |-> Append(tree.symbols, item.symbol),
                          codes   |-> Append(tree.codes, shifted),
                          lengths |-> Append(tree.lengths, item.length)])

EmptyTree == [symbols |-> <<>>, codes |-> <<>>, lengths |-> <<>>]

\* the loop without the left shift on a longer code
createCanonicalTree_NoShift(lengths) ==
    LET sorted == SortItems(CodedItems(lengths))
    IN  [symbols |-> [i \in 1..Len(sorted) |-> sorted[i].symbol],
         codes   |-> [i \in 1..Len(sorted) |-> i - 1],
         lengths |-> [i \in 1..Len(sorted) |-> sorted[i].length]]

\* HuffmanTreeOperations.createCanonicalTree(lengths)
createCanonicalTree(lengths) ==
    AssignCodes(SortItems(CodedItems(lengths)), 1, 0, 0, EmptyTree)

\* HuffmanTreeOperations.validateTree(tree): equal array lengths and no two
\* entries with the same (code, length)
validateTree(tree) ==
    /\ Len(tree.symbols) = Len(tree.codes)
    /\ Len(tree.symbols) = Len(tree.lengths)
    /\ \A i, j \in 1..Len(tree.codes) :
           (i < j) => ~(tree.codes[i] = tree.codes[j] /\ tree.lengths[i] = tree.lengths[j])

\* HuffmanTreeOperations.buildTreeFromLengths(lengths), validateAfterBuild = true
buildTreeFromLengths(lengths) ==
    LET tree == createCanonicalTree(lengths)
    IN  IF ~validateTree(tree)
        THEN [ok |-> FALSE, err |-> "Huffman tree invalid", tree |-> EmptyTree]
        ELSE [ok |-> TRUE, err |-> "", tree |-> tree]

maxCodeLength == 16

\* the inner for loop of decodeSymbol: the first entry with this length and code
MatchingEntry(tree, length, code) ==
    LET hits == {i \in 1..Len(tree.codes) :
                     tree.lengths[i] = length /\ tree.codes[i] = code}
    IN  IF hits = {} THEN 0 ELSE CHOOSE i \in hits : \A j \in hits : i <= j

\* The while loop of decodeSymbol.
RECURSIVE DecodeLoop(_, _, _, _, _, _)
DecodeLoop(buf, pos, bit, tree, code, length) ==
    IF length >= maxCodeLength
    THEN [ok |-> FALSE, err |-> "Invalid Huffman code", symbol |-> 0,
          position |-> pos, bitPosition |-> bit]
    ELSE IF ~BitReader_hasMore(buf, pos)
    THEN [ok |-> FALSE, err |-> "Unexpected end of stream while decoding Huffman symbol",
          symbol |-> 0, position |-> pos, bitPosition |-> bit]
    ELSE LET r       == BitReader_read(buf, pos, bit, 1)
             newCode == ShlOr32(code, 1, r.value)
             hit     == MatchingEntry(tree, length + 1, newCode)
         IN  IF hit # 0
             THEN [ok |-> TRUE, err |-> "", symbol |-> tree.symbols[hit],
                   position |-> r.position, bitPosition |-> r.bitPosition]
             ELSE DecodeLoop(buf, r.position, r.bitPosition, tree, newCode, length + 1)

\* decodeSymbol with a loop that counts its bits from -1
decodeSymbol_CountsLate(buf, pos, bit, tree) == DecodeLoop(buf, pos, bit, tree, 0, 0 - 1)

\* HuffmanTreeOperations.decodeSymbol(reader, tree), maxCodeLength = 16
decodeSymbol(buf, pos, bit, tree) == DecodeLoop(buf, pos, bit, tree, 0, 0)

\* A bit string as the bytes of a Buffer, MSB first, the last byte padded with
\* zero bits.
RECURSIVE ByteOfBits(_, _, _)
ByteOfBits(bits, from, k) ==
    IF k > 8 THEN 0
    ELSE (IF from + k - 1 <= Len(bits) THEN bits[from + k - 1] * Pow2(8 - k) ELSE 0)
         + ByteOfBits(bits, from, k + 1)

PackBits(bits) ==
    [b \in 1..((Len(bits) + 7) \div 8) |-> ByteOfBits(bits, 8 * (b - 1) + 1, 1)]

(***************************************************************************)
(* LZXEncoder                                                              *)
(***************************************************************************)
\* Buffer.writeUInt32LE(v)
LE32(v) == <<v % 256, (v \div 256) % 256, (v \div 65536) % 256, (v \div 16777216) % 256>>

\* config.windowSize || 0x8000 and config.resetInterval || 0x8000
DefaultWindowSize == 32768

DefaultResetInterval == 32768

OrDefault(configured, default) == IF configured = 0 THEN default ELSE configured

\* the inner while loop of findBestMatch for candidate i: the length it stops
\* at, the first that reaches maxLength or pos - i or meets two unequal bytes
MatchLength(data, i, pos, maxLength) ==
    IF \A k \in 0..(Min(maxLength, pos - i) - 1) : data[i + k + 1] = data[pos + k + 1]
    THEN Min(maxLength, pos - i)
    ELSE CHOOSE k \in 0..(Min(maxLength, pos - i) - 1) :
             /\ data[i + k + 1] # data[pos + k + 1]
             /\ \A j \in 0..(k - 1) : data[i + j + 1] = data[pos + j + 1]

\* the greatest of a set of lengths, 0 for none
Longest(lengths) ==
    IF lengths = {} THEN 0 ELSE CHOOSE n \in lengths : \A x \in lengths : x <= n

\* the for loop of findBestMatch over the candidates lo..hi-1: a candidate
\* replaces the best one only when strictly longer, so the first of the
\* candidates with the longest match is kept
BestMatchFrom(data, lo, hi, pos, maxLength) ==
    With(<<>> \o [c \in 1..(hi - lo) |-> MatchLength(data, lo + c - 1, pos, maxLength)],
         LAMBDA found :
    With(Longest({found[c] : c \in 1..Len(found)}), LAMBDA bestLength :
        IF bestLength = 0 THEN [distance |-> 0, length |-> 0]
        ELSE [distance |-> pos - (lo - 1 + CHOOSE c \in 1..Len(found) :
                                               /\ found[c] = bestLength
                                               /\ \A b \in 1..(c - 1) : found[b] # bestLength),
              length |-> bestLength]))

MaxMatchLength == 258

\* LZXEncoder.findBestMatch(data, position)
findBestMatch(data, pos, windowSize) ==
    BestMatchFrom(data, Max(0, pos - windowSize), pos, pos,
                  Min(MaxMatchLength, Len(data) - pos))

\* LZXEncoder.outputMatch: 0x80 | ((length - 3) & 0x7f), distance low, high
outputMatch(distance, length) ==
    <<128 + ((length - 3) % 128), distance % 256, (distance \div 256) % 256>>

\* LZXEncoder.outputLiteral: literal & 0x7f
outputLiteral(literal) == <<literal % 128>>

MinMatchLength == 3

\* one turn of the while loop of compressBlock at byte i: the match or the
\* literal is appended to output, and i moves past it; matches lists the
\* matches handed to outputMatch so far
CompressStep(block, i, windowSize, output, bestMatch, matches) ==
    IF bestMatch.length >= MinMatchLength
    THEN [output |-> output \o outputMatch(bestMatch.distance, bestMatch.length),
          next |-> i + bestMatch.length,
          matches |-> Append(matches, bestMatch)]
    ELSE [output |-> output \o outputLiteral(block[i + 1]), next |-> i + 1,
          matches |-> matches]

\* the while loop of compressBlock over the positions lo..hi-1, entered with
\* the loop's state so far (its output, and i = so.next >= lo): the loop's
\* state when i leaves the range
RECURSIVE CompressFrom(_, _, _, _, _)
CompressFrom(block, so, lo, hi, windowSize) ==
    IF so.next >= hi THEN so
    ELSE IF hi = lo + 1
    THEN CompressStep(block, so.next, windowSize, so.output,
                      findBestMatch(block, so.next, windowSize), so.matches)
    ELSE CompressFrom(block, CompressFrom(block, so, lo, (lo + hi) \div 2, windowSize),
                      (lo + hi) \div 2, hi, windowSize)

EncoderBlockType == 3

\* the state of compressBlock's loop when it is entered: nothing written,
\* i = 0, no match handed to outputMatch yet
LoopEntry == [output |-> <<>>, next |-> 0, matches |-> <<>>]

\* LZXEncoder.compressBlock(block): the byte 0x03, the size in three bytes,
\* least significant first, then the matches and literals
compressBlock(block, windowSize) ==
    <<EncoderBlockType, Len(block) % 256, (Len(block) \div 256) % 256,
      (Len(block) \div 65536) % 256>>
    \o CompressFrom(block, LoopEntry, 0, Len(block), windowSize).output

\* compress that takes all that is left of the input as one block
CompressBlocks_OneBlock(input, pos, resetInterval, windowSize) ==
    IF pos >= Len(input) THEN [output |-> <<>>, entries |-> <<>>]
    ELSE [output  |-> compressBlock(SubSeq(input, pos + 1, Len(input)), windowSize),
          entries |-> <<[uncompressedLength |-> Len(input) - pos,
                         compressedLength |->
                             Len(compressBlock(SubSeq(input, pos + 1, Len(input)),
                                               windowSize))]>>]

\* the while loop of compress from byte pos on: the output and the reset
\* table entries
RECURSIVE CompressBlocks(_, _, _, _)
CompressBlocks(input, pos, resetInterval, windowSize) ==
    IF pos >= Len(input) THEN [output |-> <<>>, entries |-> <<>>]
    ELSE With(Min(resetInterval, Len(input) - pos), LAMBDA blockSize :
         With(compressBlock(SubSeq(input, pos + 1, pos + blockSize), windowSize),
              LAMBDA compressedBlock :
         With(CompressBlocks(input, pos + blockSize, resetInterval, windowSize),
              LAMBDA rest :
             [output  |-> compressedBlock \o rest.output,
              entries |-> <<[uncompressedLength |-> blockSize,
                             compressedLength |-> Len(compressedBlock)]>>
                          \o rest.entries])))

RECURSIVE ResetEntryBytes(_)
ResetEntryBytes(entries) ==
    IF Len(entries) = 0 THEN <<>>
    ELSE LE32(Head(entries).compressedLength) \o LE32(Head(entries).uncompressedLength)
         \o ResetEntryBytes(Tail(entries))

ResetTableVersion == 2

ResetTableEntrySize == 8

ResetTableHeaderSize == 16

\* LZXEncoder.generateResetTable(entries)
generateResetTable(entries) ==
    LE32(ResetTableVersion) \o LE32(Len(entries)) \o LE32(ResetTableEntrySize)
    \o LE32(ResetTableHeaderSize) \o ResetEntryBytes(entries)

\* LZXEncoder.compress(inputBuffer) of an encoder built with these settings
LZXEncoder_compress(input, resetInterval, windowSize) ==
    With(CompressBlocks(input, 0, resetInterval, windowSize), LAMBDA c :
        [compressedData |-> c.output,
         resetTable |-> generateResetTable(c.entries),
         uncompressedSize |-> Len(input),
         compressedSize |-> Len(c.output)])

(***************************************************************************)
(* LZXDecoder                                                              *)
(***************************************************************************)
Failed(err, pos, bit) ==
    [ok |-> FALSE, err |-> err, data |-> <<>>, position |-> pos, bitPosition |-> bit]

\* the k-th of consecutive reader.read(bits) calls from pos, bit: every call
\* that returns leaves the reader bits further on
NthRead(buf, pos, bit, bits, k) ==
    BitReader_read(buf, (8 * pos + bit + (k - 1) * bits) \div 8,
                   (8 * pos + bit + (k - 1) * bits) % 8, bits)

\* count times reader.read(bits), the values in order after acc; the first
\* throw of read ends it
ReadEach(buf, pos, bit, bits, count, acc) ==
    IF count <= 0
    THEN [ok |-> TRUE, err |-> "", data |-> acc, position |-> pos, bitPosition |-> bit]
    ELSE IF \A k \in 1..count : NthRead(buf, pos, bit, bits, k).ok
    THEN With(NthRead(buf, pos, bit, bits, count), LAMBDA last :
             [ok |-> TRUE, err |-> "",
              data |-> acc \o [k \in 1..count |-> NthRead(buf, pos, bit, bits, k).value],
              position |-> last.position, bitPosition |-> last.bitPosition])
    ELSE With(NthRead(buf, pos, bit, bits,
                      CHOOSE k \in 1..count :
                          /\ ~NthRead(buf, pos, bit, bits, k).ok
                          /\ \A j \in 1..(k - 1) : NthRead(buf, pos, bit, bits, j).ok),
              LAMBDA r : Failed(r.err, r.position, r.bitPosition))

PRETREE_NUM_ELEMENTS == 20

NUM_CHARS == 256

NUM_PRIMARY_LENGTHS == 7

NUM_SECONDARY_LENGTHS == 249

\* LZXDecoder.readPretreeLengths(reader)
readPretreeLengths(buf, pos, bit) == ReadEach(buf, pos, bit, 4, PRETREE_NUM_ELEMENTS, <<>>)

\* LZXDecoder.decodeSymbol(reader, tree): reader.read(8), the tree is not used
LZXDecoder_decodeSymbol(buf, pos, bit) == BitReader_read(buf, pos, bit, 8)

\* The while loop of readTreeLengths from length i on.  The lengths only go to
\* tables that decodeSymbol never consults, so the loop is followed for what it
\* consumes; a symbol above 19 consumes its eight bits and adds nothing.
RECURSIVE readTreeLengths(_, _, _, _, _)
readTreeLengths(buf, pos, bit, count, i) ==
    IF i >= count
    THEN [ok |-> TRUE, err |-> "", data |-> <<>>, position |-> pos, bitPosition |-> bit]
    ELSE With(LZXDecoder_decodeSymbol(buf, pos, bit), LAMBDA s :
             IF ~s.ok THEN Failed(s.err, s.position, s.bitPosition)
             ELSE IF s.value <= 16
             THEN readTreeLengths(buf, s.position, s.bitPosition, count, i + 1)
             ELSE IF s.value \in {17, 18, 19}
             THEN With(BitReader_read(buf, s.position, s.bitPosition,
                                      CASE s.value = 17 -> 4 [] s.value = 18 -> 5
                                        [] OTHER -> 1),
                       LAMBDA r :
                      IF ~r.ok THEN Failed(r.err, r.position, r.bitPosition)
                      ELSE readTreeLengths(buf, r.position, r.bitPosition, count,
                                           i + Min(r.value + (IF s.value = 18 THEN 20 ELSE 4),
                                                   count - i)))
             ELSE readTreeLengths(buf, s.position, s.bitPosition, count, i))

\* LZXDecoder.readHuffmanTables(reader): pretree, literal lengths, length lengths
readHuffmanTables(buf, pos, bit) ==
    With(readPretreeLengths(buf, pos, bit), LAMBDA pre :
        IF ~pre.ok THEN pre
        ELSE With(readTreeLengths(buf, pre.position, pre.bitPosition, NUM_CHARS, 0),
                  LAMBDA lit :
                 IF ~lit.ok THEN lit
                 ELSE readTreeLengths(buf, lit.position, lit.bitPosition,
                                      NUM_PRIMARY_LENGTHS + NUM_SECONDARY_LENGTHS, 0)))

\* LZXDecoder.decodeVerbatimBlock: the tables, then one symbol per output byte;
\* decodeSymbol returns a value below NUM_CHARS, so every symbol is a literal
decodeVerbatimBlock(buf, pos, bit, uncompressedSize) ==
    With(readHuffmanTables(buf, pos, bit), LAMBDA t :
        IF ~t.ok THEN t
        ELSE ReadEach(buf, t.position, t.bitPosition, 8, uncompressedSize, <<>>))

\* LZXDecoder.decodeAlignedBlock: reader.skip(alignedOffset), then as verbatim
decodeAlignedBlock(buf, pos, bit, uncompressedSize, alignedOffset) ==
    LET k == BitReader_skip(pos, bit, alignedOffset)
    IN  decodeVerbatimBlock(buf, k.position, k.bitPosition, uncompressedSize)

\* LZXDecoder.decodeUncompressedBlock: reader.align(), then the bytes
decodeUncompressedBlock(buf, pos, bit, uncompressedSize) ==
    LET a == BitReader_align(pos, bit)
    IN  ReadEach(buf, a.position, a.bitPosition, 8, uncompressedSize, <<>>)

VERBATIM == 1

ALIGNED == 2

UNCOMPRESSED == 3

\* LZXDecoder.readBlockHeader: 3 bits of type, 24 bits of size, and 3 bits of
\* aligned offset for an aligned block
readBlockHeader(buf, pos, bit) ==
    With(BitReader_read(buf, pos, bit, 3), LAMBDA t :
        IF ~t.ok THEN [ok |-> FALSE, err |-> t.err, type |-> 0, uncompressedSize |-> 0,
                       alignedOffset |-> 0, position |-> t.position,
                       bitPosition |-> t.bitPosition]
        ELSE With(BitReader_read(buf, t.position, t.bitPosition, 24), LAMBDA z :
            IF ~z.ok THEN [ok |-> FALSE, err |-> z.err, type |-> 0, uncompressedSize |-> 0,
                           alignedOffset |-> 0, position |-> z.position,
                           bitPosition |-> z.bitPosition]
            ELSE IF t.value # ALIGNED
            THEN [ok |-> TRUE, err |-> "", type |-> t.value, uncompressedSize |-> z.value,
                  alignedOffset |-> 0, position |-> z.position,
                  bitPosition |-> z.bitPosition]
            ELSE With(BitReader_read(buf, z.position, z.bitPosition, 3), LAMBDA a :
                [ok |-> a.ok, err |-> a.err, type |-> t.value,
                 uncompressedSize |-> z.value, alignedOffset |-> a.value,
                 position |-> a.position, bitPosition |-> a.bitPosition])))

\* LZXDecoder.decodeBlock(reader, block)
decodeBlock(buf, block) ==
    CASE block.type = VERBATIM ->
            decodeVerbatimBlock(buf, block.position, block.bitPosition,
                                block.uncompressedSize)
      [] block.type = ALIGNED ->
            decodeAlignedBlock(buf, block.position, block.bitPosition,
                               block.uncompressedSize, block.alignedOffset)
      [] block.type = UNCOMPRESSED ->
            decodeUncompressedBlock(buf, block.position, block.bitPosition,
                                    block.uncompressedSize)
      [] OTHER -> Failed("unsupported LZX block type", block.position, block.bitPosition)

\* The while loop of LZXDecoder.decode with the output so far.
RECURSIVE DecodeBlocks(_, _, _, _, _)
DecodeBlocks(buf, pos, bit, uncompressedSize, result) ==
    IF Len(result) >= uncompressedSize
    THEN [ok |-> TRUE, err |-> "", data |-> result, position |-> pos, bitPosition |-> bit]
    ELSE With(readBlockHeader(buf, pos, bit), LAMBDA block :
        IF ~block.ok THEN Failed(block.err, block.position, block.bitPosition)
        ELSE With(decodeBlock(buf, block), LAMBDA d :
            IF ~d.ok THEN d
            ELSE DecodeBlocks(buf, d.position, d.bitPosition, uncompressedSize,
                              result \o SubSeq(d.data, 1,
                                               Min(Len(d.data),
                                                   uncompressedSize - Len(result))))))

\* LZXDecoder.decode(reader, uncompressedSize)
LZXDecoder_decode(buf, pos, bit, uncompressedSize) ==
    DecodeBlocks(buf, pos, bit, uncompressedSize, <<>>)

(***************************************************************************)
(* SlidingWindow: a window is the record of its data, size and position.   *)
(***************************************************************************)
\* new SlidingWindow(windowSize): Buffer.alloc fills with zeros
NewWindow(windowSize) ==
    [data |-> [k \in 1..windowSize |-> 0], size |-> windowSize, position |-> 0]

\* SlidingWindow.writeByte(byte); a Buffer element keeps the low 8 bits
writeByte(w, byte) ==
    [w EXCEPT !.data[w.position + 1] = byte % 256,
              !.position = (w.position + 1) % w.size]

\* SlidingWindow.readBackByte(offset)
readBackByte(w, offset) ==
    IF offset <= 0 \/ offset > w.size
    THEN [ok |-> FALSE, err |-> "invalid offset", value |-> 0]
    ELSE [ok |-> TRUE, err |-> "",
          value |-> w.data[((w.position - offset + w.size) % w.size) + 1]]

\* The for loop of copyData from byte i on, result being the bytes copied so
\* far; a throw of readBackByte leaves the window as the loop had it.
RECURSIVE CopyLoop(_, _, _, _, _)
CopyLoop(w, offset, length, i, result) ==
    IF i >= length THEN [ok |-> TRUE, err |-> "", data |-> result, window |-> w]
    ELSE With(readBackByte(w, offset), LAMBDA byte :
             IF ~byte.ok THEN [ok |-> FALSE, err |-> byte.err, data |-> <<>>, window |-> w]
             ELSE CopyLoop(writeByte(w, byte.value), offset, length, i + 1,
                           Append(result, byte.value)))

\* copyData that takes the whole source from the window before writing any byte
copyData_SourceFirst(w, offset, length) ==
    IF length > 0 /\ (offset <= 0 \/ offset > w.size)
    THEN [ok |-> FALSE, err |-> "invalid offset", data |-> <<>>, window |-> w]
    ELSE [ok |-> TRUE, err |-> "",
          data |-> [i \in 1..length |->
                       w.data[((w.position - offset + i - 1 + w.size) % w.size) + 1]],
          window |-> [w EXCEPT
              !.data = [k \in 1..w.size |->
                  IF \E i \in 1..length : (w.position + i - 1) % w.size = k - 1
                  THEN LET i == CHOOSE j \in 1..length :
                                    /\ (w.position + j - 1) % w.size = k - 1
                                    /\ \A j2 \in 1..length :
                                           (w.position + j2 - 1) % w.size = k - 1 => j2 <= j
                       IN  w.data[((w.position - offset + i - 1 + w.size) % w.size) + 1]
                  ELSE w.data[k]],
              !.position = (w.position + length) % w.size]]

\* SlidingWindow.copyData(offset, length)
copyData(w, offset, length) == CopyLoop(w, offset, length, 0, <<>>)

\* SlidingWindow.write(data)
RECURSIVE SlidingWindow_write(_, _)
SlidingWindow_write(w, data) ==
    IF Len(data) = 0 THEN w
    ELSE SlidingWindow_write(writeByte(w, Head(data)), Tail(data))

\* SlidingWindow.reset()
SlidingWindow_reset(w) == [w EXCEPT !.data = [k \in 1..w.size |-> 0], !.position = 0]

\* SlidingWindow.getUsage()
getUsage(w) == Min(w.position, w.size)

\* SlidingWindow.canReadBack(offset, length)
canReadBack(w, offset, length) ==
    IF offset <= 0 \/ offset > w.size THEN FALSE
    ELSE IF length <= 0 THEN FALSE
    ELSE offset <= getUsage(w)

\* new LZXDecoder(lzxcHeader)
NewDecoder(lzxcHeader) ==
    [windowSize |-> lzxcHeader.windowSize, resetInterval |-> lzxcHeader.resetInterval,
     window |-> NewWindow(lzxcHeader.windowSize)]

\* The while loop of LZXDecoder.decode as it acts on the decoder's window,
\* from the block at (pos, bit) on with outputPosition bytes put out: the
\* window when decode returns or throws.
RECURSIVE DecodeWindow(_, _, _, _, _, _)
DecodeWindow(buf, pos, bit, uncompressedSize, outputPosition, window) ==
    IF outputPosition >= uncompressedSize THEN window
    ELSE With(readBlockHeader(buf, pos, bit), LAMBDA block :
        IF ~block.ok THEN window
        ELSE With(decodeBlock(buf, block), LAMBDA d :
            IF ~d.ok THEN window
            ELSE DecodeWindow(buf, d.position, d.bitPosition, uncompressedSize,
                     outputPosition + Min(Len(d.data), uncompressedSize - outputPosition),
                     SlidingWindow_write(window,
                         SubSeq(d.data, 1,
                                Min(Len(d.data), uncompressedSize - outputPosition))))))

\* the decoder after LZXDecoder.decode(reader, uncompressedSize): reset(),
\* then the loop
LZXDecoder_afterDecode(decoder, buf, pos, bit, uncompressedSize) ==
    [decoder EXCEPT !.window = DecodeWindow(buf, pos, bit, uncompressedSize, 0,
                                            SlidingWindow_reset(decoder.window))]

(***************************************************************************)
(* config.ts: the configuration and its cache.  A JSON value is a record   *)
(* with its kind; an object carries its fields, a number its value.  A     *)
(* configuration object is a value with the identity of the object.        *)
(***************************************************************************)
JsonObject(fields) == [kind |-> "object", fields |-> fields]

JsonNumber(n) == [kind |-> "number", value |-> n]

JsonNull == [kind |-> "null"]

\* defaultLzxConfig
defaultLzxConfig ==
    JsonObject([key \in {"windowSize", "resetInterval", "compressionLevel"} |->
                   IF key = "compressionLevel" THEN JsonNumber(6) ELSE JsonNumber(32768)])

\* defaultCliConfig, its numeric field
defaultCliConfig == JsonObject([key \in {"maxConcurrency"} |-> JsonNumber(4)])

\* defaultFullConfig, the sections lzx and cli; it is one object, created once
defaultFullConfig ==
    [id |-> 0,
     value |-> JsonObject([key \in {"lzx", "cli"} |->
                              IF key = "lzx" THEN defaultLzxConfig ELSE defaultCliConfig])]

\* deepMerge(target, source): a new object; a field of source replaces the
\* target's unless both are objects, which are merged
RECURSIVE deepMerge(_, _)
deepMerge(target, source) ==
    JsonObject([key \in DOMAIN target.fields \cup DOMAIN source.fields |->
        IF key \notin DOMAIN source.fields THEN target.fields[key]
        ELSE IF key \in DOMAIN target.fields
                /\ source.fields[key].kind = "object"
                /\ target.fields[key].kind = "object"
        THEN deepMerge(target.fields[key], source.fields[key])
        ELSE source.fields[key]])

ValidKeys == {"default", "lzx", "format", "cli", "performance", "validation"}

\* validateConfig(config): whether config is an object
validateConfig(config) == config.kind = "object"

\* config after validateConfig has deleted the keys it does not know
KnownKeys(config) ==
    JsonObject([key \in DOMAIN config.fields \cap ValidKeys |-> config.fields[key]])

\* findConfigFile(): whether the file exists in the working directory
findConfigFile(file) == file.exists

\* loadConfigFromFile(configPath): null when the file does not parse or is
\* not a configuration
loadConfigFromFile(file) ==
    IF ~file.parses THEN JsonNull
    ELSE IF ~validateConfig(file.json) THEN JsonNull
    ELSE KnownKeys(file.json)

\* loadConfig() as its load-th run: defaultFullConfig itself, or a new
\* object merged from it and the file
loadConfig(file, load) ==
    IF ~findConfigFile(file) THEN defaultFullConfig
    ELSE IF loadConfigFromFile(file).kind = "null" THEN defaultFullConfig
    ELSE [id |-> load, value |-> deepMerge(defaultFullConfig.value, loadConfigFromFile(file))]

NoConfigObject == [id |-> Undefined, value |-> JsonNull]

\* getConfig that loads on every call
getConfig_Reloads(cached, forceReload, file, loads) ==
    [cached |-> loadConfig(file, loads + 1), loads |-> loads + 1]

\* getConfig(forceReload): the cache and the number of loads after the call;
\* the call returns the cache
getConfig(cached, forceReload, file, loads) ==
    IF cached.value.kind = "null" \/ forceReload
    THEN [cached |-> loadConfig(file, loads + 1), loads |-> loads + 1]
    ELSE [cached |-> cached, loads |-> loads]

\* resetConfigCache()
resetConfigCache == NoConfigObject

(***************************************************************************)
(* TOCBuilder, CHMEncoder, CHMHeaderBuilder and CHMFileWriter.  Names and    *)
(* contents are byte sequences (the UTF-8 bytes of the strings).             *)
(***************************************************************************)
\* Buffer.writeUInt16LE(v)
LE16(v) == <<v % 256, (v \div 256) % 256>>

Zeros(n) == [i \in 1..n |-> 0]

\* a write into a Buffer at an offset; Buffer.copy stops at the end of the target
WriteAt(buf, offset, bytes) ==
    [i \in 1..Len(buf) |->
        IF i - 1 >= offset /\ i - 1 < offset + Len(bytes) THEN bytes[i - offset] ELSE buf[i]]

\* 'Table of Contents.hhc'
HHC_NAME == <<84, 97, 98, 108, 101, 32, 111, 102, 32, 67, 111, 110, 116, 101, 110, 116, 115, 46, 104, 104, 99>>

\* 'Index.hhk'
HHK_NAME == <<73, 110, 100, 101, 120, 46, 104, 104, 107>>

\* TOCBuilder.generateHHC() with no TOC entries (no .html file in the input)
generateHHC ==
    <<60, 33, 68, 79, 67, 84, 89, 80, 69, 32, 72, 84, 77, 76, 32, 80, 85, 66, 76, 73,
      67, 32, 34, 45, 47, 47, 73, 69, 84, 70, 47, 47, 68, 84, 68, 32, 72, 84, 77, 76,
      47, 47, 69, 78, 34, 62, 10, 60, 72, 84, 77, 76, 62, 10, 60, 72, 69, 65, 68, 62,
      10, 60, 109, 101, 116, 97, 32, 110, 97, 109, 101, 61, 34, 71, 69, 78, 69, 82, 65,
      84, 79, 82, 34, 32, 99, 111, 110, 116, 101, 110, 116, 61, 34, 99, 104, 109, 107,
      105, 116, 34, 62, 10, 60, 33, 45, 45, 32, 83, 105, 116, 101, 109, 97, 112, 32,
      49, 46, 48, 32, 45, 45, 62, 10, 60, 47, 72, 69, 65, 68, 62, 60, 66, 79, 68, 89,
      62, 10, 60, 79, 66, 74, 69, 67, 84, 32, 116, 121, 112, 101, 61, 34, 116, 101,
      120, 116, 47, 115, 105, 116, 101, 32, 112, 114, 111, 112, 101, 114, 116, 105,
      101, 115, 34, 62, 10, 9, 60, 112, 97, 114, 97, 109, 32, 110, 97, 109, 101, 61,
      34, 73, 109, 97, 103, 101, 84, 121, 112, 101, 34, 32, 118, 97, 108, 117, 101, 61,
      34, 70, 111, 108, 100, 101, 114, 34, 62, 10, 60, 47, 79, 66, 74, 69, 67, 84, 62,
      10, 60, 85, 76, 62, 10, 10, 60, 47, 85, 76, 62, 10, 60, 47, 66, 79, 68, 89, 62,
      60, 47, 72, 84, 77, 76, 62>>

\* TOCBuilder.generateHHK() with no index entries
generateHHK ==
    <<60, 33, 68, 79, 67, 84, 89, 80, 69, 32, 72, 84, 77, 76, 32, 80, 85, 66, 76, 73,
      67, 32, 34, 45, 47, 47, 73, 69, 84, 70, 47, 47, 68, 84, 68, 32, 72, 84, 77, 76,
      47, 47, 69, 78, 34, 62, 10, 60, 72, 84, 77, 76, 62, 10, 60, 72, 69, 65, 68, 62,
      10, 60, 109, 101, 116, 97, 32, 110, 97, 109, 101, 61, 34, 71, 69, 78, 69, 82, 65,
      84, 79, 82, 34, 32, 99, 111, 110, 116, 101, 110, 116, 61, 34, 99, 104, 109, 107,
      105, 116, 34, 62, 10, 60, 33, 45, 45, 32, 83, 105, 116, 101, 109, 97, 112, 32,
      49, 46, 48, 32, 45, 45, 62, 10, 60, 47, 72, 69, 65, 68, 62, 60, 66, 79, 68, 89,
      62, 10, 60, 85, 76, 62, 10, 10, 60, 47, 85, 76, 62, 10, 60, 47, 66, 79, 68, 89,
      62, 60, 47, 72, 84, 77, 76, 62>>

\* Map.set(name, content): the value is replaced in place or the key appended
RECURSIVE MapSet(_, _)
MapSet(files, file) ==
    IF Len(files) = 0 THEN <<file>>
    ELSE IF Head(files).name = file.name THEN <<file>> \o Tail(files)
    ELSE <<Head(files)>> \o MapSet(Tail(files), file)

\* CHMEncoder.generateTOCAndIndex: the two generated files join this.files
generateTOCAndIndex(files) ==
    MapSet(MapSet(files, [name |-> HHC_NAME, content |-> generateHHC]),
           [name |-> HHK_NAME, content |-> generateHHK])

\* the loop of compressFiles: name length, name, content length, content
RECURSIVE CombinedContent(_)
CombinedContent(files) ==
    IF Len(files) = 0 THEN <<>>
    ELSE LE32(Len(Head(files).name)) \o Head(files).name
         \o LE32(Len(Head(files).content)) \o Head(files).content
         \o CombinedContent(Tail(files))

RECURSIVE TotalContentLength(_)
TotalContentLength(files) ==
    IF Len(files) = 0 THEN 0
    ELSE Len(Head(files).content) + TotalContentLength(Tail(files))

\* CHMEncoder.compressFiles(); the encoder is new LZXEncoder()
compressFiles(files) ==
    With(LZXEncoder_compress(CombinedContent(files), DefaultResetInterval,
                             DefaultWindowSize),
         LAMBDA compressed :
        [content |-> compressed.compressedData,
         resetTable |-> compressed.resetTable,
         totalUncompressed |-> TotalContentLength(files),
         totalCompressed |-> compressed.compressedSize])

\* CHMEncoder.buildDirectoryEntries: one entry per file, offsets cumulative
RECURSIVE buildDirectoryEntries(_, _)
buildDirectoryEntries(files, currentOffset) ==
    IF Len(files) = 0 THEN <<>>
    ELSE <<[name |-> Head(files).name,
            isCompressed |-> TRUE,
            offset |-> currentOffset,
            length |-> Len(Head(files).content),
            uncompressedLength |-> Len(Head(files).content),
            section |-> 0]>>
         \o buildDirectoryEntries(Tail(files), currentOffset + Len(Head(files).content))

ITSF_SIGNATURE == <<73, 84, 83, 70>>

ITSP_SIGNATURE == <<73, 84, 83, 80>>

LZXC_SIGNATURE == <<76, 90, 88, 67>>

ITSF_LENGTH == 96

ITSP_LENGTH == 84

LZXC_LENGTH == 40

DefaultLanguageId == 1033

DefaultChunkSize == 4096

\* CHMHeaderBuilder.createITSFHeader({directoryOffset, directoryLength}); the
\* timestamp is the clock's
createITSFHeader(directoryOffset, directoryLength, timestamp) ==
    [signature |-> ITSF_SIGNATURE, version |-> 3, headerLength |-> ITSF_LENGTH,
     unknown1 |-> 0, timestamp |-> timestamp, languageId |-> DefaultLanguageId,
     unknown2 |-> 0, unknown3 |-> 0, directoryOffset |-> directoryOffset,
     directoryLength |-> directoryLength, unknown4 |-> 0]

\* CHMHeaderBuilder.createITSPHeader()
createITSPHeader ==
    [signature |-> ITSP_SIGNATURE, version |-> 1, headerLength |-> ITSP_LENGTH,
     unknown1 |-> 0, chunkSize |-> DefaultChunkSize, density |-> 2, depth |-> 2,
     rootIndex |-> 0, firstPMGI |-> 0, lastPMGI |-> 0, unknown2 |-> 0]

\* CHMHeaderBuilder.createLZXCHeader({resetInterval, windowSize})
createLZXCHeader(resetInterval, windowSize) ==
    [signature |-> LZXC_SIGNATURE, version |-> 2,
     resetInterval |-> OrDefault(resetInterval, DefaultResetInterval),
     windowSize |-> OrDefault(windowSize, DefaultWindowSize),
     cacheSize |-> 0, unknown |-> 0]

\* CHMHeaderBuilder.serializeITSFHeader: 44 bytes of fields in a 96-byte buffer
serializeITSFHeader(header) ==
    WriteAt(Zeros(ITSF_LENGTH), 0,
            header.signature \o LE32(header.version) \o LE32(header.headerLength)
            \o LE32(header.unknown1) \o LE32(header.timestamp) \o LE32(header.languageId)
            \o LE32(header.unknown2) \o LE32(header.unknown3)
            \o LE32(header.directoryOffset) \o LE32(header.directoryLength)
            \o LE32(header.unknown4))

\* CHMHeaderBuilder.serializeITSPHeader: 44 bytes of fields in an 84-byte buffer
serializeITSPHeader(header) ==
    WriteAt(Zeros(ITSP_LENGTH), 0,
            header.signature \o LE32(header.version) \o LE32(header.headerLength)
            \o LE32(header.unknown1) \o LE32(header.chunkSize) \o LE32(header.density)
            \o LE32(header.depth) \o LE32(header.rootIndex) \o LE32(header.firstPMGI)
            \o LE32(header.lastPMGI) \o LE32(header.unknown2))

\* CHMHeaderBuilder.serializeLZXCHeader: 24 bytes of fields in a 40-byte buffer
serializeLZXCHeader(header) ==
    WriteAt(Zeros(LZXC_LENGTH), 0,
            header.signature \o LE32(header.version) \o LE32(header.resetInterval)
            \o LE32(header.windowSize) \o LE32(header.cacheSize) \o LE32(header.unknown))

DirectoryEntrySize == 32

MaxNameBytes == 24

NameFieldEnd == 26

\* the body of the for loop of serializeDirectory for the entry at base
SerializeEntry(buf, base, entry) ==
    LET named   == WriteAt(WriteAt(buf, base, LE16(Len(entry.name))), base + 2, entry.name)
        nameEnd == base + 2 + Min(Len(entry.name), MaxNameBytes)
        padded  == WriteAt(named, nameEnd, Zeros(base + NameFieldEnd - nameEnd))
    IN  WriteAt(padded, base + NameFieldEnd,
                <<IF entry.isCompressed THEN 1 ELSE 0, entry.section % 256>>
                \o LE32(entry.offset))

RECURSIVE SerializeEntries(_, _, _)
SerializeEntries(buf, entries, i) ==
    IF i > Len(entries) THEN buf
    ELSE SerializeEntries(SerializeEntry(buf, (i - 1) * DirectoryEntrySize, entries[i]),
                          entries, i + 1)

\* CHMHeaderBuilder.serializeDirectory(entries): 32 bytes per entry
serializeDirectory(entries) ==
    SerializeEntries(Zeros(Len(entries) * DirectoryEntrySize), entries, 1)

\* CHMHeaderBuilder.calculateHeaderSize(resetTableSize)
calculateHeaderSize(resetTableSize) ==
    ITSF_LENGTH + ITSP_LENGTH + LZXC_LENGTH + resetTableSize

\* CHMEncoder.buildHeaders: the three serialized headers, concatenated
buildHeaders(compressedData, directoryEntries, timestamp) ==
    LET directoryOffset == calculateHeaderSize(Len(compressedData.resetTable))
        directoryLength == Len(directoryEntries) * DirectoryEntrySize
    IN  serializeITSFHeader(createITSFHeader(directoryOffset, directoryLength, timestamp))
        \o serializeITSPHeader(createITSPHeader)
        \o serializeLZXCHeader(createLZXCHeader(DefaultResetInterval, DefaultWindowSize))

\* CHMFileWriter.validateCHMData(data)
validateCHMData(data) ==
    /\ Len(data) >= ITSF_LENGTH
    /\ SubSeq(data, 1, 4) = ITSF_SIGNATURE
    /\ SubSeq(data, 9, 12) = LE32(ITSF_LENGTH)

\* CHMFileWriter.writeCHMFile: headers, reset table, directory, content
writeCHMFile(headers, resetTable, directory, content) ==
    LET finalBuffer == headers \o resetTable \o directory \o content
    IN  [ok |-> validateCHMData(finalBuffer), data |-> finalBuffer]

\* CHMEncoder.encode of the scanned files (sorted by name), at a clock reading
CHMEncoder_encode(scanned, timestamp) ==
    With(generateTOCAndIndex(scanned), LAMBDA files :
    With(compressFiles(files), LAMBDA compressedData :
    With(buildDirectoryEntries(files, 0), LAMBDA directoryEntries :
    With(writeCHMFile(buildHeaders(compressedData, directoryEntries, timestamp),
                      compressedData.resetTable, serializeDirectory(directoryEntries),
                      compressedData.content),
         LAMBDA written :
        [ok |-> written.ok, data |-> written.data, files |-> files,
         directoryEntries |-> directoryEntries,
         directoryOffset |-> calculateHeaderSize(Len(compressedData.resetTable))]))))

(***************************************************************************)
(* ITSFHeaderParser, ITSPHeaderParser, LZXCHeaderParser                    *)
(***************************************************************************)
\* byte1 | (byte2 << 8) | (byte3 << 16) | (byte4 << 24): a signed 32-bit value
Int32LE(b) ==
    b[1] + 256 * b[2] + 65536 * b[3] + 16777216 * (b[4] % 128)
    + (IF b[4] >= 128 THEN MinInt32 ELSE 0)

\* count header fields read with readUInt32LE, in order
ReadFields(buf, pos, bit, count) ==
    With(ReadEach(buf, pos, bit, 8, 4 * count, <<>>), LAMBDA r :
        IF ~r.ok THEN r
        ELSE [r EXCEPT !.data = [k \in 1..count |->
                                    Int32LE(SubSeq(r.data, 4 * k - 3, 4 * k))]])

ParseFailed(err, r) ==
    [ok |-> FALSE, err |-> err, fields |-> <<>>, position |-> r.position,
     bitPosition |-> r.bitPosition]

FieldBytesRead == 44

\* The parse method of ITSFHeaderParser and of ITSPHeaderParser: signature,
\* version, header length, eight more fields, then the rest of the declared
\* header length is skipped.  fields[1] is the version.
ParseHeader(buf, pos, bit, signature, version, minLength, tag) ==
    With(ReadEach(buf, pos, bit, 8, 4, <<>>), LAMBDA s :
    IF ~s.ok THEN ParseFailed(s.err, s)
    ELSE IF s.data # signature THEN ParseFailed(tag \o " signature invalid", s)
    ELSE With(ReadFields(buf, s.position, s.bitPosition, 1), LAMBDA v :
    IF ~v.ok THEN ParseFailed(v.err, v)
    ELSE IF v.data[1] # version THEN ParseFailed(tag \o " version unsupported", v)
    ELSE With(ReadFields(buf, v.position, v.bitPosition, 1), LAMBDA h :
    IF ~h.ok THEN ParseFailed(h.err, h)
    ELSE IF h.data[1] < minLength THEN ParseFailed(tag \o " header length invalid", h)
    ELSE With(ReadFields(buf, h.position, h.bitPosition, 8), LAMBDA f :
    IF ~f.ok THEN ParseFailed(f.err, f)
    ELSE With(ReadEach(buf, f.position, f.bitPosition, 8, h.data[1] - FieldBytesRead,
                       <<>>),
              LAMBDA k :
    IF ~k.ok THEN ParseFailed(k.err, k)
    ELSE [ok |-> TRUE, err |-> "", fields |-> v.data \o h.data \o f.data,
          position |-> k.position, bitPosition |-> k.bitPosition])))))

\* ITSFHeaderParser.parse(reader)
ITSFHeaderParser_parse(buf, pos, bit) ==
    With(ParseHeader(buf, pos, bit, ITSF_SIGNATURE, 3, ITSF_LENGTH, "ITSF"), LAMBDA r :
        IF ~r.ok THEN r
        ELSE [ok |-> TRUE, err |-> "", position |-> r.position,
              bitPosition |-> r.bitPosition,
              fields |-> [signature |-> ITSF_SIGNATURE, version |-> r.fields[1],
                          headerLength |-> r.fields[2], unknown1 |-> r.fields[3],
                          timestamp |-> r.fields[4], languageId |-> r.fields[5],
                          unknown2 |-> r.fields[6], unknown3 |-> r.fields[7],
                          directoryOffset |-> r.fields[8],
                          directoryLength |-> r.fields[9], unknown4 |-> r.fields[10]]])

\* ITSFHeaderParser.validate(header)
ITSFHeaderParser_validate(header) ==
    /\ header.signature = ITSF_SIGNATURE
    /\ header.version = 3
    /\ header.headerLength >= ITSF_LENGTH
    /\ header.directoryOffset > 0
    /\ header.directoryLength > 0

\* ITSPHeaderParser.parse(reader)
ITSPHeaderParser_parse(buf, pos, bit) ==
    With(ParseHeader(buf, pos, bit, ITSP_SIGNATURE, 1, ITSP_LENGTH, "ITSP"), LAMBDA r :
        IF ~r.ok THEN r
        ELSE [ok |-> TRUE, err |-> "", position |-> r.position,
              bitPosition |-> r.bitPosition,
              fields |-> [signature |-> ITSP_SIGNATURE, version |-> r.fields[1],
                          headerLength |-> r.fields[2], unknown1 |-> r.fields[3],
                          chunkSize |-> r.fields[4], density |-> r.fields[5],
                          depth |-> r.fields[6], rootIndex |-> r.fields[7],
                          firstPMGI |-> r.fields[8], lastPMGI |-> r.fields[9],
                          unknown2 |-> r.fields[10]]])

\* ITSPHeaderParser.validate(header)
ITSPHeaderParser_validate(header) ==
    /\ header.signature = ITSP_SIGNATURE
    /\ header.version = 1
    /\ header.headerLength >= ITSP_LENGTH
    /\ header.chunkSize > 0

\* LZXCHeaderParser.WINDOW_SIZES
WINDOW_SIZES == {32768, 65536, 131072, 262144, 524288, 1048576, 2097152}

\* LZXCHeaderParser.parse(reader): signature, version and four fields, 24 bytes
LZXCHeaderParser_parse(buf, pos, bit) ==
    With(ReadEach(buf, pos, bit, 8, 4, <<>>), LAMBDA s :
    IF ~s.ok THEN ParseFailed(s.err, s)
    ELSE IF s.data # LZXC_SIGNATURE THEN ParseFailed("LZXC signature invalid", s)
    ELSE With(ReadFields(buf, s.position, s.bitPosition, 1), LAMBDA v :
    IF ~v.ok THEN ParseFailed(v.err, v)
    ELSE IF v.data[1] # 2 THEN ParseFailed("LZXC version unsupported", v)
    ELSE With(ReadFields(buf, v.position, v.bitPosition, 2), LAMBDA w :
    IF ~w.ok THEN ParseFailed(w.err, w)
    ELSE IF w.data[2] \notin WINDOW_SIZES THEN ParseFailed("LZX window size invalid", w)
    ELSE With(ReadFields(buf, w.position, w.bitPosition, 2), LAMBDA c :
    IF ~c.ok THEN ParseFailed(c.err, c)
    ELSE [ok |-> TRUE, err |-> "", position |-> c.position,
          bitPosition |-> c.bitPosition,
          fields |-> [signature |-> LZXC_SIGNATURE, version |-> v.data[1],
                      resetInterval |-> w.data[1], windowSize |-> w.data[2],
                      cacheSize |-> c.data[1], unknown |-> c.data[2]]]))))

\* LZXCHeaderParser.validate(header)
LZXCHeaderParser_validate(header) ==
    /\ header.signature = LZXC_SIGNATURE
    /\ header.version = 2
    /\ header.windowSize \in WINDOW_SIZES
    /\ header.resetInterval > 0

(***************************************************************************)
(* DirectoryParser                                                         *)
(***************************************************************************)
PMGL_SIGNATURE == <<80, 77, 71, 76>>

PMGI_SIGNATURE == <<80, 77, 71, 73>>

\* Buffer.readUInt8/readUInt32LE/readBigUInt64LE at a 0-based offset; the
\* caller has checked the range.  Bytes that are 0 add nothing.
RECURSIVE UIntLE(_, _, _)
UIntLE(data, offset, bytes) ==
    IF bytes = 0 THEN 0
    ELSE LET top == data[offset + bytes]
         IN  (IF top = 0 THEN 0 ELSE top * Pow2(8 * (bytes - 1)))
             + UIntLE(data, offset, bytes - 1)

\* a Buffer read of this many bytes at this offset is in range
InRange(data, offset, bytes) == offset >= 0 /\ offset + bytes <= Len(data)

\* DirectoryParser.parseDirectoryEntry(data, offset); a read out of range throws
parseDirectoryEntry(data, offset) ==
    LET nameLength   == data[offset + 1]
        nameStart    == offset + 1
        name         == Slice(data, nameStart, nameStart + nameLength)
        flagAt       == nameStart + nameLength
        isCompressed == data[flagAt + 1] = 1
        offsetAt     == flagAt + 1
        lengthAt     == offsetAt + 8
        uncompAt     == lengthAt + 4
        sectionAt    == IF isCompressed THEN uncompAt + 4 ELSE uncompAt
    IN  IF ~InRange(data, offset, 1) \/ ~InRange(data, flagAt, 1)
           \/ ~InRange(data, offsetAt, 8) \/ ~InRange(data, lengthAt, 4)
           \/ ~InRange(data, sectionAt, 4)
           \/ (isCompressed /\ ~InRange(data, uncompAt, 4))
        THEN [ok |-> FALSE, nextOffset |-> offset]
        ELSE [ok |-> TRUE, nextOffset |-> sectionAt + 4,
              entry |-> [name |-> name,
                         isCompressed |-> isCompressed,
                         offset |-> UIntLE(data, offsetAt, 8),
                         length |-> UIntLE(data, lengthAt, 4),
                         uncompressedLength |->
                             IF isCompressed THEN UIntLE(data, uncompAt, 4) ELSE Undefined,
                         section |-> UIntLE(data, sectionAt, 4)]]

LeafHeaderSize == 20

EntryCountAt == 16

\* the for loop of parseLeafBlock: a throw of parseDirectoryEntry ends it
RECURSIVE LeafEntries(_, _, _, _)
LeafEntries(blockData, offset, i, entryCount) ==
    IF ~(i < entryCount /\ offset < Len(blockData)) THEN <<>>
    ELSE With(parseDirectoryEntry(blockData, offset), LAMBDA e :
             IF ~e.ok THEN <<>>
             ELSE <<e.entry>> \o LeafEntries(blockData, e.nextOffset, i + 1, entryCount))

\* DirectoryParser.parseLeafBlock(blockData); readUInt32LE(16) is outside the try
parseLeafBlock(blockData) ==
    IF ~InRange(blockData, EntryCountAt, 4)
    THEN [ok |-> FALSE, err |-> "out of range", entries |-> <<>>]
    ELSE [ok |-> TRUE, err |-> "",
          entries |-> LeafEntries(blockData, LeafHeaderSize, 0,
                                  UIntLE(blockData, EntryCountAt, 4))]

\* The while loop of parseDirectoryBlocks from chunk currentChunk on: the
\* chunks read, with their signatures.
RECURSIVE parseDirectoryBlocks(_, _, _, _, _, _)
parseDirectoryBlocks(buf, pos, bit, chunkSize, lastPMGI, currentChunk) ==
    IF currentChunk > lastPMGI
    THEN [ok |-> TRUE, err |-> "", data |-> <<>>, position |-> pos, bitPosition |-> bit]
    ELSE With(ReadEach(buf, pos, bit, 8, chunkSize, <<>>), LAMBDA chunk :
        IF ~chunk.ok THEN chunk
        ELSE IF Slice(chunk.data, 0, 4) \notin {PMGL_SIGNATURE, PMGI_SIGNATURE}
        THEN Failed("unknown block signature", chunk.position, chunk.bitPosition)
        ELSE With(parseDirectoryBlocks(buf, chunk.position, chunk.bitPosition,
                                       chunkSize, lastPMGI, currentChunk + 1),
                  LAMBDA rest :
            IF ~rest.ok THEN rest
            ELSE [rest EXCEPT !.data = <<[type |-> Slice(chunk.data, 0, 4),
                                          data |-> chunk.data]>> \o @]))

\* entries.set(entry.name, entry) for each entry, in order
RECURSIVE MapSetAll(_, _)
MapSetAll(entries, added) ==
    IF Len(added) = 0 THEN entries
    ELSE MapSetAll(MapSet(entries, Head(added)), Tail(added))

\* the for loop of DirectoryParser.parse over the blocks
RECURSIVE CollectEntries(_, _)
CollectEntries(blocks, entries) ==
    IF Len(blocks) = 0 THEN [ok |-> TRUE, err |-> "", entries |-> entries]
    ELSE IF Head(blocks).type # PMGL_SIGNATURE THEN CollectEntries(Tail(blocks), entries)
    ELSE With(parseLeafBlock(Head(blocks).data), LAMBDA leaf :
             IF ~leaf.ok THEN leaf
             ELSE CollectEntries(Tail(blocks), MapSetAll(entries, leaf.entries)))

\* DirectoryParser.parse(reader, itspHeader)
DirectoryParser_parse(buf, pos, bit, itspHeader) ==
    With(parseDirectoryBlocks(buf, pos, bit, itspHeader.chunkSize, itspHeader.lastPMGI,
                              0),
         LAMBDA blocks :
        IF ~blocks.ok
        THEN [ok |-> FALSE, err |-> blocks.err, entries |-> <<>>,
              position |-> blocks.position, bitPosition |-> blocks.bitPosition]
        ELSE With(CollectEntries(blocks.data, <<>>), LAMBDA found :
            [ok |-> found.ok, err |-> found.err, entries |-> found.entries,
             position |-> blocks.position, bitPosition |-> blocks.bitPosition]))

\* DirectoryParser.validate(directory)
DirectoryParser_validate(entries) ==
    /\ Len(entries) > 0
    /\ \E i \in 1..Len(entries) :
           entries[i].name # <<>> /\ entries[i].offset >= 0 /\ entries[i].length >= 0

(***************************************************************************)
(* ResetTableProcessor.parseResetTable and CHMParser                       *)
(***************************************************************************)
\* the pairs read by parseResetTableEntries from the values that follow
ResetEntries(values) ==
    [k \in 1..(Len(values) \div 2) |->
        [compressedLength |-> values[2 * k - 1], uncompressedLength |-> values[2 * k]]]

\* a throw of parseResetTable, the reader where r left it
ResetTableFailed(err, r) ==
    [ok |-> FALSE, err |-> err, position |-> r.position, bitPosition |-> r.bitPosition]

\* ResetTableProcessor.parseResetTable(reader): seven 32-bit reads, then two
\* per block; version, block count and entry size are checked as they are read
parseResetTable(buf, pos, bit) ==
    With(BitReader_read(buf, pos, bit, 32), LAMBDA v :
    IF ~v.ok THEN ResetTableFailed(v.err, v)
    ELSE IF v.value # ResetTableVersion
    THEN ResetTableFailed("reset table version unsupported", v)
    ELSE With(BitReader_read(buf, v.position, v.bitPosition, 32), LAMBDA c :
    IF ~c.ok THEN ResetTableFailed(c.err, c)
    ELSE IF c.value <= 0 THEN ResetTableFailed("block count invalid", c)
    ELSE With(BitReader_read(buf, c.position, c.bitPosition, 32), LAMBDA s :
    IF ~s.ok THEN ResetTableFailed(s.err, s)
    ELSE IF s.value # ResetTableEntrySize THEN ResetTableFailed("entry size invalid", s)
    ELSE With(ReadEach(buf, s.position, s.bitPosition, 32, 4, <<>>), LAMBDA f :
    IF ~f.ok THEN ResetTableFailed(f.err, f)
    \* more blocks than the buffer has bytes end in the same throw
    ELSE With(ReadEach(buf, f.position, f.bitPosition, 32,
                       2 * Min(c.value, Len(buf) + 1), <<>>),
              LAMBDA e :
    IF ~e.ok THEN ResetTableFailed(e.err, e)
    ELSE [ok |-> TRUE, err |-> "", position |-> e.position,
          bitPosition |-> e.bitPosition,
          table |-> [version |-> v.value, blockCount |-> c.value,
                     entrySize |-> s.value, tableOffset |-> f.data[1],
                     uncompressedLength |-> f.data[2],
                     compressedLength |-> f.data[3], blockSize |-> f.data[4],
                     entries |-> ResetEntries(e.data)]])))))

\* private resetTable: ResetTable | null = null
NullTable ==
    [set |-> FALSE,
     table |-> [version |-> 0, blockCount |-> 0, entrySize |-> 0, tableOffset |-> 0,
                uncompressedLength |-> 0, compressedLength |-> 0, blockSize |-> 0,
                entries |-> <<>>]]

\* a parseResetTable whose throw clears the field
StoreParsed_ClearsOnThrow(stored, r) ==
    IF r.ok THEN [set |-> TRUE, table |-> r.table] ELSE NullTable

\* the resetTable field after parseResetTable ended as r: the assignment is
\* the last statement before the return, a throw does not reach it
StoreParsed(stored, r) ==
    IF r.ok THEN [set |-> TRUE, table |-> r.table] ELSE stored

\* ResetTableProcessor.getBlockInfo(blockIndex): the entry, or null
getBlockInfo(stored, blockIndex) ==
    IF ~stored.set THEN [found |-> FALSE, entry |-> <<>>]
    ELSE IF blockIndex < 0 \/ blockIndex >= Len(stored.table.entries)
    THEN [found |-> FALSE, entry |-> <<>>]
    ELSE [found |-> TRUE, entry |-> stored.table.entries[blockIndex + 1]]

\* ResetTableProcessor.getBlockCount()
getBlockCount(stored) == IF stored.set THEN stored.table.blockCount ELSE 0

\* the for loop of calculateBlockOffset from block i on, offset so far
RECURSIVE OffsetLoop(_, _, _, _)
OffsetLoop(entries, i, blockIndex, offset) ==
    IF i >= blockIndex THEN offset
    ELSE OffsetLoop(entries, i + 1, blockIndex, offset + entries[i + 1].compressedLength)

\* ResetTableProcessor.calculateBlockOffset(blockIndex)
calculateBlockOffset(stored, blockIndex) ==
    IF ~stored.set THEN [ok |-> FALSE, err |-> "reset table not initialised", value |-> 0]
    ELSE IF blockIndex < 0 \/ blockIndex >= Len(stored.table.entries)
    THEN [ok |-> FALSE, err |-> "block index invalid", value |-> 0]
    ELSE [ok |-> TRUE, err |-> "",
          value |-> OffsetLoop(stored.table.entries, 0, blockIndex,
                               stored.table.tableOffset)]

\* the for loop of findBlockByOffset from block i on
RECURSIVE FindLoop(_, _, _, _)
FindLoop(entries, i, currentOffset, offset) ==
    IF i >= Len(entries) THEN 0 - 1
    ELSE IF offset >= currentOffset
            /\ offset < currentOffset + entries[i + 1].compressedLength
    THEN i
    ELSE FindLoop(entries, i + 1, currentOffset + entries[i + 1].compressedLength, offset)

\* a findBlockByOffset that starts at 0 instead of the table offset
findBlockByOffset_FromZero(stored, offset) ==
    IF ~stored.set THEN 0 - 1
    ELSE FindLoop(stored.table.entries, 0, 0, offset)

\* ResetTableProcessor.findBlockByOffset(offset)
findBlockByOffset(stored, offset) ==
    IF ~stored.set THEN 0 - 1
    ELSE FindLoop(stored.table.entries, 0, stored.table.tableOffset, offset)

\* ResetTableProcessor.validate()
validate(stored) ==
    /\ stored.set
    /\ stored.table.version = 2
    /\ stored.table.blockCount > 0
    /\ stored.table.entrySize = 8
    /\ Len(stored.table.entries) = stored.table.blockCount
    /\ \A k \in 1..Len(stored.table.entries) :
           /\ stored.table.entries[k].compressedLength > 0
           /\ stored.table.entries[k].uncompressedLength > 0

\* the table CHMParser.parseResetTable returns when the processor throws
DefaultResetTable ==
    [version |-> 2, blockCount |-> 0, entrySize |-> 8, tableOffset |-> 0,
     uncompressedLength |-> 0, compressedLength |-> 0, blockSize |-> 32768,
     entries |-> <<>>]

\* CHMParser.parseResetTable(reader): the throw is caught, the reader stays
\* where the throw left it
CHMParser_parseResetTable(buf, pos, bit) ==
    With(parseResetTable(buf, pos, bit), LAMBDA r :
        [table |-> IF r.ok THEN r.table ELSE DefaultResetTable,
         parsed |-> r.ok, position |-> r.position, bitPosition |-> r.bitPosition])

\* CHMParser.seekToDirectory(reader, directoryOffset): the byte position is
\* divided by 8 before the distance is taken
seekToDirectory(buf, pos, bit, directoryOffset) ==
    IF directoryOffset - (pos \div 8) < 0
    THEN Failed("directory offset invalid", pos, bit)
    ELSE With(ReadEach(buf, pos, bit, 8, directoryOffset - (pos \div 8), <<>>),
              LAMBDA r :
        IF ~r.ok THEN r
        ELSE With(BitReader_align(r.position, r.bitPosition), LAMBDA a :
            [r EXCEPT !.data = <<>>, !.position = a.position,
                      !.bitPosition = a.bitPosition]))

NoHeaders == <<>>

NoParse(err, r) ==
    [ok |-> FALSE, err |-> err, header |-> NoHeaders, entries |-> <<>>,
     resetTable |-> DefaultResetTable, resetTableParsed |-> FALSE, contentOffset |-> 0,
     directoryAt |-> 0, position |-> r.position, bitPosition |-> r.bitPosition]

\* CHMParser.parse(reader) on a reader at pos, bit: parseHeaders,
\* seekToDirectory, parseDirectory, parseResetTable, calculateContentOffset.
\* directoryAt is where the reader stood when the directory was read.
CHMParser_parse(buf, pos, bit) ==
    With(ITSFHeaderParser_parse(buf, pos, bit), LAMBDA itsf :
    IF ~itsf.ok THEN NoParse(itsf.err, itsf)
    ELSE IF ~ITSFHeaderParser_validate(itsf.fields)
    THEN NoParse("ITSF header validation failed", itsf)
    ELSE With(ITSPHeaderParser_parse(buf, itsf.position, itsf.bitPosition), LAMBDA itsp :
    IF ~itsp.ok THEN NoParse(itsp.err, itsp)
    ELSE IF ~ITSPHeaderParser_validate(itsp.fields)
    THEN NoParse("ITSP header validation failed", itsp)
    ELSE With(LZXCHeaderParser_parse(buf, itsp.position, itsp.bitPosition), LAMBDA lzxc :
    IF ~lzxc.ok THEN NoParse(lzxc.err, lzxc)
    ELSE IF ~LZXCHeaderParser_validate(lzxc.fields)
    THEN NoParse("LZXC header validation failed", lzxc)
    ELSE With(seekToDirectory(buf, lzxc.position, lzxc.bitPosition,
                              itsf.fields.directoryOffset),
              LAMBDA seek :
    IF ~seek.ok THEN NoParse(seek.err, seek)
    ELSE With(DirectoryParser_parse(buf, seek.position, seek.bitPosition, itsp.fields),
              LAMBDA dir :
    IF ~dir.ok THEN NoParse(dir.err, dir)
    ELSE IF ~DirectoryParser_validate(dir.entries)
    THEN NoParse("directory validation failed", dir)
    ELSE With(CHMParser_parseResetTable(buf, dir.position, dir.bitPosition), LAMBDA rt :
         [ok |-> TRUE, err |-> "",
          header |-> <<itsf.fields, itsp.fields, lzxc.fields>>,
          entries |-> dir.entries,
          resetTable |-> rt.table, resetTableParsed |-> rt.parsed,
          contentOffset |-> itsf.fields.directoryOffset + itsf.fields.directoryLength,
          directoryAt |-> seek.position,
          position |-> rt.position, bitPosition |-> rt.bitPosition]))))))

\* CHMParserValidator.validate(parsedCHM)
CHMParserValidator_validate(parsedCHM) ==
    /\ ITSFHeaderParser_validate(parsedCHM.header[1])
    /\ ITSPHeaderParser_validate(parsedCHM.header[2])
    /\ LZXCHeaderParser_validate(parsedCHM.header[3])
    /\ DirectoryParser_validate(parsedCHM.entries)
    /\ parsedCHM.contentOffset > 0

\* ParserOperations.parse: a new reader over the file, parse, then validate
ParserOperations_parse(fileBuffer) ==
    With(CHMParser_parse(fileBuffer, 0, 0), LAMBDA parsedCHM :
        IF ~parsedCHM.ok THEN parsedCHM
        ELSE IF ~CHMParserValidator_validate(parsedCHM)
        THEN NoParse("CHM validation failed", parsedCHM)
        ELSE parsedCHM)

(***************************************************************************)
(* FileReconstructor                                                       *)
(***************************************************************************)
\* the index of the entry with this name in the Map, 0 when there is none
EntryNamed(entries, name) ==
    LET hits == {i \in 1..Len(entries) : entries[i].name = name}
    IN  IF hits = {} THEN 0 ELSE CHOOSE i \in hits : TRUE

\* String.toLowerCase on ASCII names
ToLowerCase(name) ==
    [i \in 1..Len(name) |-> IF name[i] >= 65 /\ name[i] <= 90 THEN name[i] + 32 ELSE name[i]]

\* path.replace(/\/+/g, '/') after path.replace(/\\/g, '/')
RECURSIVE CollapseSlashes(_)
CollapseSlashes(path) ==
    IF Len(path) = 0 THEN <<>>
    ELSE LET c == IF Head(path) = 92 THEN 47 ELSE Head(path)
             rest == CollapseSlashes(Tail(path))
         IN  IF c = 47 /\ Len(rest) > 0 /\ Head(rest) = 47 THEN rest ELSE <<c>> \o rest

\* FileReconstructor.normalizePath(path)
normalizePath(path) ==
    CollapseSlashes(IF Len(path) > 0 /\ Head(path) = 47 THEN path ELSE <<47>> \o path)

\* FileReconstructor.findFileEntry(fileName): the name, the normalized name,
\* then the first entry equal to it without regard to case; 0 for null
findFileEntry(entries, fileName) ==
    LET direct     == EntryNamed(entries, fileName)
        normalized == EntryNamed(entries, normalizePath(fileName))
        anyCase    == {i \in 1..Len(entries) :
                          ToLowerCase(entries[i].name) = ToLowerCase(fileName)}
    IN  IF direct # 0 THEN direct
        ELSE IF normalized # 0 THEN normalized
        ELSE IF anyCase # {} THEN CHOOSE i \in anyCase : \A j \in anyCase : i <= j
        ELSE 0

\* FileReconstructor.fileExists(fileName)
fileExists(entries, fileName) == EntryNamed(entries, fileName) # 0

\* FileReconstructor.seekToOffset(reader, offset): bytes are read to move
\* forward; a reader already past the offset, or inside a byte, is left alone
seekToOffset(buf, pos, bit, contentOffset, offset) ==
    IF pos # contentOffset + offset /\ contentOffset + offset - pos > 0
    THEN With(ReadEach(buf, pos, bit, 8, contentOffset + offset - pos, <<>>), LAMBDA r :
             [r EXCEPT !.data = <<>>])
    ELSE [ok |-> TRUE, err |-> "", data |-> <<>>, position |-> pos, bitPosition |-> bit]

\* readCompressedData that asks the decoder for entry.length bytes
readCompressedData_ByLength(buf, pos, bit, entry) ==
    IF entry.uncompressedLength = Undefined \/ entry.uncompressedLength = 0
    THEN Failed("compressed file lacks its uncompressed length", pos, bit)
    ELSE LZXDecoder_decode(buf, pos, bit, entry.length)

\* FileReconstructor.readCompressedData(entry, reader)
readCompressedData(buf, pos, bit, entry) ==
    IF entry.uncompressedLength = Undefined \/ entry.uncompressedLength = 0
    THEN Failed("compressed file lacks its uncompressed length", pos, bit)
    ELSE LZXDecoder_decode(buf, pos, bit, entry.uncompressedLength)

\* FileReconstructor.readUncompressedData(entry, reader)
readUncompressedData(buf, pos, bit, entry) ==
    ReadEach(buf, pos, bit, 8, entry.length, <<>>)

\* FileReconstructor.readFileData(entry, reader)
readFileData(buf, pos, bit, contentOffset, entry) ==
    With(seekToOffset(buf, pos, bit, contentOffset, entry.offset), LAMBDA s :
        IF ~s.ok THEN s
        ELSE IF entry.isCompressed
        THEN readCompressedData(buf, s.position, s.bitPosition, entry)
        ELSE readUncompressedData(buf, s.position, s.bitPosition, entry))

\* the CHMFile reconstructFile returns for the entry it found
FileOf(fileName, entry, d) ==
    [ok |-> d.ok, err |-> d.err, name |-> fileName, data |-> d.data,
     isCompressed |-> entry.isCompressed,
     originalSize |-> IF entry.uncompressedLength # Undefined
                      THEN entry.uncompressedLength ELSE entry.length,
     compressedSize |-> entry.length,
     position |-> d.position, bitPosition |-> d.bitPosition]

\* FileReconstructor.reconstructFile(fileName, reader)
reconstructFile(parsedCHM, buf, pos, bit, fileName) ==
    With(findFileEntry(parsedCHM.entries, fileName), LAMBDA i :
        IF i = 0
        THEN [ok |-> FALSE, err |-> "file not found", name |-> fileName, data |-> <<>>,
              isCompressed |-> FALSE, originalSize |-> 0, compressedSize |-> 0,
              position |-> pos, bitPosition |-> bit]
        ELSE FileOf(fileName, parsedCHM.entries[i],
                    readFileData(buf, pos, bit, parsedCHM.contentOffset,
                                 parsedCHM.entries[i])))

(***************************************************************************)
(* The reader under an arbitrary sequence of calls.                        *)
(***************************************************************************)
\* The byte streams the readers of the model run over: every buffer is a
\* prefix of one of them.  StreamA starts with its top bit set.
StreamA == <<210, 75, 0, 255, 129, 60, 7, 200>>

StreamB == <<75, 210, 255, 1, 128, 15, 240, 85>>

Buffers == {SubSeq(s, 1, n) : s \in {StreamA, StreamB}, n \in 0..MaxBuf}

BitCounts == 1..32

SkipCounts == {1, 7, 8, 9}

ByteCounts == {1, 2, 3, 4, 8}

NoCall == [op |-> "none", arg |-> 0, ok |-> TRUE, err |-> "", value |-> 0, data |-> <<>>,
           before |-> <<0, 0>>]

Called(op, arg, ok, err, value, data) ==
    [op |-> op, arg |-> arg, ok |-> ok, err |-> err, value |-> value, data |-> data,
     before |-> <<position, bitPosition>>]

NoTree == [ok |-> FALSE, err |-> "", tree |-> EmptyTree]

HuffIdle ==
    /\ hLengths = <<>>
    /\ hTree = NoTree
    /\ symbolsWritten = <<>>
    /\ bitsWritten = <<>>
    /\ decoded = <<>>
    /\ huffPc = "idle"

NoConfig == [resetInterval |-> 0, windowSize |-> 0]

NoCompressed ==
    [compressedData |-> <<>>, resetTable |-> <<>>, uncompressedSize |-> 0,
     compressedSize |-> 0]

NoResult == [ok |-> FALSE, err |-> "", data |-> <<>>]

NoDecoder == [windowSize |-> 0, resetInterval |-> 0, window |-> NewWindow(0)]

LzxIdle ==
    /\ lzxInput = <<>>
    /\ lzxConfig = NoConfig
    /\ lzxCompressed = NoCompressed
    /\ lzxWanted = 0
    /\ lzxResult = NoResult
    /\ lzxDecoder = NoDecoder
    /\ lzxPc = "idle"

NoPacked == [files |-> <<>>, directoryEntries |-> <<>>]

NotParsed == NoParse("", [position |-> 0, bitPosition |-> 0])

ChmIdle ==
    /\ chmOrigin = "none"
    /\ chmPacked = NoPacked
    /\ chmParsed = NotParsed
    /\ extracted = <<>>
    /\ chmPc = "idle"

NoWinCall == [op |-> "none", offset |-> 0, length |-> 0, ok |-> TRUE, err |-> "",
              data |-> <<>>, before |-> NewWindow(0), calls |-> 0, written |-> 0]

WinIdle ==
    /\ winSize = 0
    /\ winData = <<>>
    /\ winPosition = 0
    /\ winCall = NoWinCall
    /\ winPc = "idle"

NoFile == [exists |-> FALSE, parses |-> FALSE, json |-> JsonNull]

NoConfigCall == [op |-> "none", forceReload |-> FALSE, returned |-> NoConfigObject,
                 calls |-> 0, getsSinceReset |-> 0]

ConfigIdle ==
    /\ configFile = NoFile
    /\ cachedConfig = NoConfigObject
    /\ configLoads = 0
    /\ configCall = NoConfigCall

NoHeaderInput == [kind |-> "none", field |-> "none", value |-> <<0, 0>>]

NoHeaderParsed == [ok |-> FALSE, err |-> "", position |-> 0, bitPosition |-> 0]

HeaderIdle ==
    /\ hdrInput = NoHeaderInput
    /\ hdrBytes = <<>>
    /\ hdrParsed = NoHeaderParsed
    /\ hdrPc = "idle"

NoProcessorCall ==
    [op |-> "none", arg |-> 0, ok |-> TRUE, err |-> "", value |-> 0, truth |-> FALSE,
     reader |-> <<0, 0>>]

ProcessorIdle ==
    /\ rtStored = NullTable
    /\ rtCall = NoProcessorCall

NoBlock == [type |-> 0, uncompressedSize |-> 0, alignedOffset |-> 0]

NoTreeLoop == [count |-> 0, i |-> 0]

DecodeStepsIdle ==
    /\ decPc = "idle"
    /\ decWanted = 0
    /\ decResult = <<>>
    /\ decOutputPosition = 0
    /\ decBlock = NoBlock
    /\ decBlockData = <<>>
    /\ decBlockOut = 0
    /\ decTree = NoTreeLoop
    /\ decWindow = NewWindow(0)

ReaderInit ==
    /\ buffer \in Buffers
    /\ position = 0
    /\ bitPosition = 0
    /\ call = NoCall
    /\ prevCall = NoCall
    /\ HuffIdle
    /\ LzxIdle
    /\ ChmIdle
    /\ WinIdle
    /\ ConfigIdle
    /\ HeaderIdle
    /\ ProcessorIdle
    /\ DecodeStepsIdle

Read(n) ==
    LET r == BitReader_read(buffer, position, bitPosition, n)
    IN  /\ position' = r.position
        /\ bitPosition' = r.bitPosition
        /\ call' = Called("read", n, r.ok, r.err, r.value, <<>>)
        /\ prevCall' = IF call.op = "peek" /\ call.arg = n THEN call ELSE NoCall
        /\ UNCHANGED <<buffer, offReader>>

Peek(n) ==
    LET r == BitReader_peek(buffer, position, bitPosition, n)
    IN  /\ position' = r.position
        /\ bitPosition' = r.bitPosition
        /\ call' = Called("peek", n, r.ok, r.err, r.value, <<>>)
        /\ prevCall' = NoCall
        /\ UNCHANGED <<buffer, offReader>>

\* skip() checks nothing; the model stops it MaxSkipPast bytes past the end.
Skip(n) ==
    LET r == BitReader_skip(position, bitPosition, n)
    IN  /\ r.position <= Len(buffer) + MaxSkipPast
        /\ position' = r.position
        /\ bitPosition' = r.bitPosition
        /\ call' = Called("skip", n, TRUE, "", 0, <<>>)
        /\ prevCall' = NoCall
        /\ UNCHANGED <<buffer, offReader>>

Align ==
    LET r == BitReader_align(position, bitPosition)
    IN  /\ position' = r.position
        /\ bitPosition' = r.bitPosition
        /\ call' = Called("align", 0, TRUE, "", 0, <<>>)
        /\ prevCall' = NoCall
        /\ UNCHANGED <<buffer, offReader>>

SetPosition(byte, bit) ==
    LET r == BitReader_setPosition(buffer, position, bitPosition, byte, bit)
    IN  /\ position' = r.position
        /\ bitPosition' = r.bitPosition
        /\ call' = Called("setPosition", byte, r.ok, r.err, bit, <<>>)
        /\ prevCall' = NoCall
        /\ UNCHANGED <<buffer, offReader>>

ReadBytes(n) ==
    LET r == BinaryDataReader_readBytes(buffer, position, bitPosition, n)
    IN  /\ position' = r.position
        /\ bitPosition' = r.bitPosition
        /\ call' = Called("readBytes", n, r.ok, r.err, 0, r.data)
        /\ prevCall' = NoCall
        /\ UNCHANGED <<buffer, offReader>>

ReadInt(n) ==
    LET r == BinaryDataReader_readInt(buffer, position, bitPosition, n)
    IN  /\ position' = r.position
        /\ bitPosition' = r.bitPosition
        /\ call' = Called("readInt", n, r.ok, r.err, 0, r.data)
        /\ prevCall' = NoCall
        /\ UNCHANGED <<buffer, offReader>>

ReaderNext ==
    \/ \E n \in BitCounts : Read(n)
    \/ \E n \in BitCounts : Peek(n)
    \/ \E n \in SkipCounts : Skip(n)
    \/ Align
    \/ \E byte \in {-1, 0, Len(buffer) - 1, Len(buffer)}, bit \in {0, 5, 8} :
            SetPosition(byte, bit)
    \/ \E n \in ByteCounts : ReadBytes(n)
    \/ \E n \in ByteCounts : ReadInt(n)

SpecReader == ReaderInit /\ [][ReaderNext]_vars

(***************************************************************************)
(* A Huffman table built from a code-length vector, a stream of its codes   *)
(* written MSB-first, and decodeSymbol called on a BitReader over it.       *)
(***************************************************************************)
\* lengths 1, 2, ..., 15, 16, 16: a complete tree with 16-bit codes
Deep16 == [i \in 1..17 |-> IF i = 17 THEN 16 ELSE i]

LengthVectors ==
    UNION {[1..n -> 0..MaxCodeLen] : n \in 1..MaxSymbols}
    \cup {Deep16, <<1, 2, 3, 3>>, <<3, 0, 1, 3, 2>>, <<1, 1, 1>>}

HuffInit ==
    /\ hLengths \in LengthVectors
    /\ hTree = NoTree
    /\ symbolsWritten = <<>>
    /\ bitsWritten = <<>>
    /\ decoded = <<>>
    /\ huffPc = "new"
    /\ buffer = <<>>
    /\ position = 0
    /\ bitPosition = 0
    /\ call = NoCall
    /\ prevCall = NoCall
    /\ LzxIdle
    /\ ChmIdle
    /\ WinIdle
    /\ ConfigIdle
    /\ HeaderIdle
    /\ ProcessorIdle
    /\ DecodeStepsIdle

BuildTree ==
    /\ huffPc = "new"
    /\ hTree' = buildTreeFromLengths(hLengths)
    /\ huffPc' = IF hTree'.ok THEN "write" ELSE "failed"
    /\ UNCHANGED <<hLengths, symbolsWritten, bitsWritten, decoded, readerVars, offHuff>>

\* the code of entry i of the table goes to the stream, MSB first
WriteSymbol(i) ==
    /\ huffPc = "write"
    /\ Len(symbolsWritten) < MaxStream
    /\ hTree.tree.codes[i] < Pow2(hTree.tree.lengths[i])
    /\ symbolsWritten' = Append(symbolsWritten, hTree.tree.symbols[i])
    /\ bitsWritten' = bitsWritten \o BitsOf(hTree.tree.codes[i], hTree.tree.lengths[i])
    /\ UNCHANGED <<hLengths, hTree, decoded, huffPc, readerVars, offHuff>>

\* new BitReader(stream)
OpenStream ==
    /\ huffPc = "write"
    /\ buffer' = PackBits(bitsWritten)
    /\ position' = 0
    /\ bitPosition' = 0
    /\ huffPc' = "decode"
    /\ UNCHANGED <<hLengths, hTree, symbolsWritten, bitsWritten, decoded, offHuff>>

\* streams that no encoder of the table wrote
ReceivedStreams == {<<255>>, <<255, 255>>, <<255, 255, 255>>, <<0, 1, 128>>}

\* new BitReader(stream) over a received stream
ReceiveStream(stream) ==
    /\ huffPc = "write"
    /\ symbolsWritten = <<>>
    /\ buffer' = stream
    /\ position' = 0
    /\ bitPosition' = 0
    /\ huffPc' = "received"
    /\ UNCHANGED <<hLengths, hTree, symbolsWritten, bitsWritten, decoded, offHuff>>

\* one decodeSymbol call; one more than there are symbols may be made
DecodeSymbol ==
    /\ huffPc = "decode"
    /\ Len(decoded) <= Len(symbolsWritten)
    /\ \A k \in 1..Len(decoded) : decoded[k].ok
    /\ LET r == decodeSymbol(buffer, position, bitPosition, hTree.tree)
       IN  /\ decoded' = Append(decoded, [ok |-> r.ok, err |-> r.err, symbol |-> r.symbol])
           /\ position' = r.position
           /\ bitPosition' = r.bitPosition
    /\ UNCHANGED <<hLengths, hTree, symbolsWritten, bitsWritten, huffPc, buffer, offHuff>>

\* one decodeSymbol call on the received stream, until a call fails
DecodeReceived ==
    /\ huffPc = "received"
    /\ Len(decoded) <= MaxStream
    /\ \A k \in 1..Len(decoded) : decoded[k].ok
    /\ \E r \in {decodeSymbol(buffer, position, bitPosition, hTree.tree)} :
           /\ decoded' = Append(decoded, [ok |-> r.ok, err |-> r.err, symbol |-> r.symbol])
           /\ position' = r.position
           /\ bitPosition' = r.bitPosition
    /\ UNCHANGED <<hLengths, hTree, symbolsWritten, bitsWritten, huffPc, buffer, offHuff>>

HuffNext ==
    \/ BuildTree
    \/ \E i \in 1..Len(hTree.tree.symbols) : WriteSymbol(i)
    \/ OpenStream
    \/ DecodeSymbol
    \/ \E stream \in ReceivedStreams : ReceiveStream(stream)
    \/ DecodeReceived

SpecHuff == HuffInit /\ [][HuffNext]_vars

(***************************************************************************)
(* An LZXEncoder compressing an input and an LZXDecoder decoding a stream.  *)
(***************************************************************************)
RECURSIVE SeqsUpTo(_, _)
SeqsUpTo(S, n) ==
    IF n = 0 THEN {<<>>}
    ELSE LET shorter == SeqsUpTo(S, n - 1)
         IN  shorter \cup {Append(q, b) : q \in shorter, b \in S}

\* bytes below and above 0x80
LzxAlphabet == {65, 200}

\* short inputs, a repeated triple, a run and a repeat of bytes above 0x80
LzxInputs ==
    SeqsUpTo(LzxAlphabet, MaxInput)
    \cup {<<65, 66, 67, 65, 66, 67>>,
          [i \in 1..12 |-> 65],
          <<200, 201, 202, 203, 200, 201, 202, 203, 9>>}

\* 0 stands for a setting the LZXConfig leaves out
LzxConfigs == [resetInterval : 0..MaxReset, windowSize : {0, 2}]

\* the length of a run of one repeated byte that is compressed in one block
MaxRun == 642

\* a long run of one byte, as in a padded or blank file
LongRun == [i \in 1..MaxRun |-> 65]

\* the long run is compressed in one block of the default reset interval
LongRunConfigs == [resetInterval : {0}, windowSize : {0, 2}]

\* an uncompressed block of two bytes
UncompressedStream == <<96, 0, 0, 64, 65, 200>>

\* two uncompressed blocks of one byte
TwoBlockStream == <<96, 0, 0, 32, 65, 96, 0, 0, 32, 200>>

\* a verbatim block of two bytes: header, 20 pretree lengths, two trees each
\* written as five repeats (18) and one length, two literals
VerbatimStream ==
    <<32, 0, 0, 64, 0, 0, 0, 0, 0, 0, 0, 0, 0, 2, 95, 18, 248, 151, 196, 190, 37, 240,
      1, 47, 137, 124, 75, 226, 95, 18, 248, 2, 14, 64>>

\* an aligned block of one byte with an aligned offset of 5
AlignedStream ==
    <<64, 0, 0, 55, 224, 0, 0, 0, 0, 0, 0, 0, 0, 0, 2, 95, 18, 248, 151, 196, 190, 37,
      240, 1, 47, 137, 124, 75, 226, 95, 18, 248, 4, 208>>

ForeignStreams ==
    {UncompressedStream, TwoBlockStream, VerbatimStream, AlignedStream,
     SubSeq(VerbatimStream, 1, 20), <<>>}

LzxInit ==
    /\ lzxInput = <<>>
    /\ lzxConfig = NoConfig
    /\ lzxCompressed = NoCompressed
    /\ lzxWanted = 0
    /\ lzxResult = NoResult
    /\ lzxDecoder = NoDecoder
    /\ lzxPc = "new"
    /\ buffer = <<>>
    /\ position = 0
    /\ bitPosition = 0
    /\ call = NoCall
    /\ prevCall = NoCall
    /\ HuffIdle
    /\ ChmIdle
    /\ WinIdle
    /\ ConfigIdle
    /\ HeaderIdle
    /\ ProcessorIdle
    /\ DecodeStepsIdle

\* new LZXEncoder(config).compress(x), and a reader over the compressedData
Compress(x, config) ==
    /\ lzxPc = "new"
    /\ lzxInput' = x
    /\ lzxConfig' = config
    /\ lzxCompressed' =
           LZXEncoder_compress(x, OrDefault(config.resetInterval, DefaultResetInterval),
                               OrDefault(config.windowSize, DefaultWindowSize))
    /\ lzxWanted' = Len(x)
    /\ buffer' = lzxCompressed'.compressedData
    /\ position' = 0
    /\ bitPosition' = 0
    /\ lzxPc' = "compressed"
    /\ UNCHANGED <<lzxResult, lzxDecoder, offLzx>>

\* a reader over a stream that did not come from the encoder
Receive(stream, size) ==
    /\ lzxPc = "new"
    /\ lzxWanted' = size
    /\ buffer' = stream
    /\ position' = 0
    /\ bitPosition' = 0
    /\ lzxPc' = "received"
    /\ UNCHANGED <<lzxInput, lzxConfig, lzxCompressed, lzxResult, lzxDecoder, offLzx>>

\* the LZXC headers a decoder is made with
DecoderHeaders == [windowSize : {2, MaxDecoderWindow}, resetInterval : 1..2]

\* new LZXDecoder(lzxcHeader).decode(reader, uncompressedSize)
Decode(lzxcHeader) ==
    /\ lzxPc \in {"compressed", "received"}
    /\ \E r \in {LZXDecoder_decode(buffer, position, bitPosition, lzxWanted)} :
           /\ lzxResult' = [ok |-> r.ok, err |-> r.err, data |-> r.data]
           /\ position' = r.position
           /\ bitPosition' = r.bitPosition
    /\ lzxDecoder' = LZXDecoder_afterDecode(NewDecoder(lzxcHeader), buffer, position,
                                            bitPosition, lzxWanted)
    /\ lzxPc' = IF lzxPc = "compressed" THEN "decoded" ELSE "decodedForeign"
    /\ UNCHANGED <<lzxInput, lzxConfig, lzxCompressed, lzxWanted, buffer, offLzx>>

LzxNext ==
    \/ \E x \in LzxInputs, config \in LzxConfigs : Compress(x, config)
    \/ \E config \in LongRunConfigs : Compress(LongRun, config)
    \/ \E stream \in ForeignStreams, size \in 0..3 : Receive(stream, size)
    \/ \E lzxcHeader \in DecoderHeaders : Decode(lzxcHeader)

SpecLzx == LzxInit /\ [][LzxNext]_vars

(***************************************************************************)
(* An archive under pack, open and extract.  The archive is written by      *)
(* CHMEncoder.encode or by another writer of the format the parser reads;   *)
(* ParserOperations.parse opens it; ExtractorOperations.extract then makes  *)
(* one reader over the file and hands it to every reconstructFile call.     *)
(***************************************************************************)
Name_a == <<97, 46, 116, 120, 116>>

Name_b == <<98, 46, 116, 120, 116>>

PackNames == {Name_a, Name_b}

PackContents == {<<>>, <<104, 105>>, <<200, 200, 200, 200>>}

\* what the directory scan hands to encode: files of distinct names
ScannedFiles ==
    {<<>>}
    \cup {<<[name |-> n, content |-> c]>> : n \in PackNames, c \in PackContents}
    \cup {<<[name |-> Name_a, content |-> c], [name |-> Name_b, content |-> d]>> :
              c \in PackContents, d \in PackContents}

\* Math.floor(Date.now() / 1000) when the header is made
Timestamps == {1700000000}

\* A 32-bit value as BitReader.read(32) takes it, most significant byte first
BE32(v) == <<(v \div 16777216) % 256, (v \div 65536) % 256, (v \div 256) % 256, v % 256>>

\* a directory entry in the layout parseDirectoryEntry reads
EntryBytes(e) ==
    <<Len(e.name)>> \o e.name \o <<IF e.isCompressed THEN 1 ELSE 0>>
    \o LE32(e.offset) \o LE32(0) \o LE32(e.length)
    \o (IF e.isCompressed THEN LE32(e.uncompressedLength) ELSE <<>>)
    \o LE32(e.section)

RECURSIVE EntriesBytes(_)
EntriesBytes(entries) ==
    IF Len(entries) = 0 THEN <<>>
    ELSE EntryBytes(Head(entries)) \o EntriesBytes(Tail(entries))

FixtureChunkSize == 96

\* a PMGL chunk in the layout parseLeafBlock reads: the signature, the entry
\* count at byte 16, the entries from byte 20
LeafBlock(entries) ==
    WriteAt(Zeros(FixtureChunkSize), 0,
            PMGL_SIGNATURE \o Zeros(EntryCountAt - Len(PMGL_SIGNATURE))
            \o LE32(Len(entries)) \o EntriesBytes(entries))

\* the bytes CHMParser.parseHeaders consumes
HeaderBytesRead == ITSF_LENGTH + ITSP_LENGTH + Len(LZXC_SIGNATURE) + 4 * 5

\* a reset table of one block in the layout parseResetTable reads
OneBlockResetTable(uncompressedLength, compressedLength) ==
    BE32(ResetTableVersion) \o BE32(1) \o BE32(ResetTableEntrySize) \o BE32(0)
    \o BE32(uncompressedLength) \o BE32(compressedLength) \o BE32(DefaultResetInterval)
    \o BE32(compressedLength) \o BE32(uncompressedLength)

\* An archive in the layout CHMParser.parse reads: the three headers, one
\* directory chunk where seekToDirectory leaves the reader, a reset table or
\* none, and the content at directoryOffset + directoryLength.
FixtureArchive(entries, resetTable, content) ==
    LET directoryOffset == HeaderBytesRead \div 8
        chunk == LeafBlock(entries)
        directoryLength == HeaderBytesRead + Len(chunk) + Len(resetTable) - directoryOffset
    IN  serializeITSFHeader(createITSFHeader(directoryOffset, directoryLength, 0))
        \o serializeITSPHeader([createITSPHeader EXCEPT !.chunkSize = FixtureChunkSize])
        \o SubSeq(serializeLZXCHeader(createLZXCHeader(0, 0)), 1,
                  Len(LZXC_SIGNATURE) + 4 * 5)
        \o chunk \o resetTable \o content

StoredEntry(name, offset, length) ==
    [name |-> name, isCompressed |-> FALSE, offset |-> offset, length |-> length,
     uncompressedLength |-> Undefined, section |-> 0]

CompressedEntry(name, offset, length, uncompressedLength) ==
    [name |-> name, isCompressed |-> TRUE, offset |-> offset, length |-> length,
     uncompressedLength |-> uncompressedLength, section |-> 1]

\* c: an uncompressed LZX block of two bytes held in six
Entry_c == CompressedEntry(<<99>>, 0, Len(UncompressedStream), 2)

Entry_u == StoredEntry(<<117>>, Len(UncompressedStream), 3)

Entry_v == StoredEntry(<<118>>, Len(UncompressedStream) + 3, 2)

\* t: two LZX blocks of one byte each
Entry_t == CompressedEntry(<<116>>, 0, Len(TwoBlockStream), 2)

Entry_w == StoredEntry(<<119>>, Len(TwoBlockStream), 1)

\* y: a verbatim LZX block, which ends inside a byte
Entry_y == CompressedEntry(<<121>>, 0, Len(VerbatimStream), 2)

Entry_s == StoredEntry(<<115>>, Len(VerbatimStream), 1)

\* k: an uncompressed LZX block of four bytes, stored right after c
FourByteStream == <<96, 0, 0, 128, 1, 2, 3, 4>>

Entry_k == CompressedEntry(<<107>>, Len(UncompressedStream), Len(FourByteStream), 4)

\* z: a compressed entry whose uncompressed length is 0
Entry_z == CompressedEntry(<<122>>, 0, Len(UncompressedStream), 0)

Content_cuv == UncompressedStream \o <<104, 105, 33>> \o <<1, 2>>

Content_ck == UncompressedStream \o FourByteStream

Content_tw == TwoBlockStream \o <<7>>

Content_ys == VerbatimStream \o <<9>>

FixtureArchives ==
    {FixtureArchive(<<Entry_c, Entry_u, Entry_v>>, <<>>, Content_cuv),
     FixtureArchive(<<Entry_v, Entry_u, Entry_c>>, OneBlockResetTable(2, 6), Content_cuv),
     FixtureArchive(<<Entry_c, Entry_k>>, <<>>, Content_ck),
     FixtureArchive(<<Entry_t, Entry_w>>, <<>>, Content_tw),
     FixtureArchive(<<Entry_y, Entry_s>>, <<>>, Content_ys),
     FixtureArchive(<<Entry_z, Entry_u>>, <<>>, Content_cuv),
     FixtureArchive(<<>>, <<>>, <<>>)}

\* the names asked of reconstructFile: the entries', one in another case and
\* one that no archive holds
ExtractNames ==
    {<<99>>, <<117>>, <<118>>, <<107>>, <<116>>, <<119>>, <<121>>, <<115>>, <<122>>, <<85>>,
     <<120>>}

ChmInit ==
    /\ buffer = <<>>
    /\ position = 0
    /\ bitPosition = 0
    /\ call = NoCall
    /\ prevCall = NoCall
    /\ HuffIdle
    /\ LzxIdle
    /\ chmOrigin = "none"
    /\ chmPacked = NoPacked
    /\ chmParsed = NotParsed
    /\ extracted = <<>>
    /\ chmPc = "new"
    /\ WinIdle
    /\ ConfigIdle
    /\ HeaderIdle
    /\ ProcessorIdle
    /\ DecodeStepsIdle

\* CHMEncoder.encode over the scanned files, the archive written to the file
Pack(scanned, timestamp) ==
    /\ chmPc = "new"
    /\ \E e \in {CHMEncoder_encode(scanned, timestamp)} :
           /\ e.ok
           /\ buffer' = e.data
           /\ chmPacked' = [files |-> e.files, directoryEntries |-> e.directoryEntries]
    /\ chmOrigin' = "encoder"
    /\ chmPc' = "written"
    /\ UNCHANGED <<position, bitPosition, chmParsed, extracted, offChm>>

\* an archive of another writer put in the file
Load(archive) ==
    /\ chmPc = "new"
    /\ buffer' = archive
    /\ chmOrigin' = "other"
    /\ chmPc' = "written"
    /\ UNCHANGED <<position, bitPosition, chmPacked, chmParsed, extracted, offChm>>

\* ExtractorOperations.extract up to its loop: ParserOperations.parse with
\* its own reader, then new BitReader(fileBuffer) for the reconstructor
Open ==
    /\ chmPc = "written"
    /\ \E p \in {ParserOperations_parse(buffer)} :
           /\ chmParsed' = p
           /\ chmPc' = IF p.ok THEN "opened" ELSE "rejected"
    /\ position' = 0
    /\ bitPosition' = 0
    /\ UNCHANGED <<buffer, chmOrigin, chmPacked, extracted, offChm>>

\* reconstructor.reconstructFile(fileName, reader) on the shared reader; a
\* throw is caught by the caller and the reader stays where the throw left it
Extract(fileName) ==
    /\ chmPc = "opened"
    /\ Len(extracted) < MaxExtracts
    /\ \E r \in {reconstructFile(chmParsed, buffer, position, bitPosition, fileName)} :
           /\ extracted' = Append(extracted, [name |-> fileName, ok |-> r.ok,
                                              err |-> r.err, data |-> r.data])
           /\ position' = r.position
           /\ bitPosition' = r.bitPosition
    /\ UNCHANGED <<buffer, chmOrigin, chmPacked, chmParsed, chmPc, offChm>>

ChmNext ==
    \/ \E scanned \in ScannedFiles, timestamp \in Timestamps : Pack(scanned, timestamp)
    \/ \E archive \in FixtureArchives : Load(archive)
    \/ Open
    \/ \E fileName \in ExtractNames : Extract(fileName)

SpecChm == ChmInit /\ [][ChmNext]_vars

(***************************************************************************)
(* A sliding window under writeByte and copyData calls.                     *)
(***************************************************************************)
Window == [data |-> winData, size |-> winSize, position |-> winPosition]

WindowBytes == {65, 66}

\* the offsets tried: every valid one, and one on each side
CopyOffsets == 0..(MaxWindow + 1)

\* new SlidingWindow(windowSize)
WinInit ==
    /\ winSize \in 1..MaxWindow
    /\ winData = NewWindow(winSize).data
    /\ winPosition = 0
    /\ winCall = NoWinCall
    /\ winPc = "ready"
    /\ buffer = <<>>
    /\ position = 0
    /\ bitPosition = 0
    /\ call = NoCall
    /\ prevCall = NoCall
    /\ HuffIdle
    /\ LzxIdle
    /\ ChmIdle
    /\ ConfigIdle
    /\ HeaderIdle
    /\ ProcessorIdle
    /\ DecodeStepsIdle

WriteByte(byte) ==
    /\ winPc = "ready"
    /\ winCall.calls < MaxWinCalls
    /\ \E w \in {writeByte(Window, byte)} :
           /\ winData' = w.data
           /\ winPosition' = w.position
    /\ winCall' = [op |-> "writeByte", offset |-> 0, length |-> 1, ok |-> TRUE,
                   err |-> "", data |-> <<byte>>, before |-> Window,
                   calls |-> winCall.calls + 1, written |-> winCall.written + 1]
    /\ UNCHANGED <<winSize, winPc, offWin>>

CopyData(offset, length) ==
    /\ winPc = "ready"
    /\ winCall.calls < MaxWinCalls
    /\ \E r \in {copyData(Window, offset, length)} :
           /\ winData' = r.window.data
           /\ winPosition' = r.window.position
           /\ winCall' = [op |-> "copyData", offset |-> offset, length |-> length,
                          ok |-> r.ok, err |-> r.err, data |-> r.data,
                          before |-> Window, calls |-> winCall.calls + 1,
                          written |-> winCall.written + Len(r.data)]
    /\ UNCHANGED <<winSize, winPc, offWin>>

\* window.write(data)
Write(data) ==
    /\ winPc = "ready"
    /\ winCall.calls < MaxWinCalls
    /\ \E w \in {SlidingWindow_write(Window, data)} :
           /\ winData' = w.data
           /\ winPosition' = w.position
    /\ winCall' = [op |-> "write", offset |-> 0, length |-> Len(data), ok |-> TRUE,
                   err |-> "", data |-> data, before |-> Window,
                   calls |-> winCall.calls + 1, written |-> winCall.written + Len(data)]
    /\ UNCHANGED <<winSize, winPc, offWin>>

\* window.reset()
Reset ==
    /\ winPc = "ready"
    /\ winCall.calls < MaxWinCalls
    /\ \E w \in {SlidingWindow_reset(Window)} :
           /\ winData' = w.data
           /\ winPosition' = w.position
    /\ winCall' = [op |-> "reset", offset |-> 0, length |-> 0, ok |-> TRUE,
                   err |-> "", data |-> <<>>, before |-> Window,
                   calls |-> winCall.calls + 1, written |-> 0]
    /\ UNCHANGED <<winSize, winPc, offWin>>

\* runs of one byte, up to longer than any window
WrittenData == {[i \in 1..n |-> byte] : n \in 0..MaxCopy, byte \in WindowBytes}

WinNext ==
    \/ \E byte \in WindowBytes : WriteByte(byte)
    \/ \E data \in WrittenData : Write(data)
    \/ Reset
    \/ \E offset \in CopyOffsets, length \in 0..MaxCopy : CopyData(offset, length)

SpecWin == WinInit /\ [][WinNext]_vars

(***************************************************************************)
(* Claims about the bit reader (checked under SpecReader).                 *)
(***************************************************************************)
BitIndex(c) == c[1] * 8 + c[2]

Cursor == <<position, bitPosition>>

\* Bits left in the buffer from cursor c.
BitsRemaining(c) == 8 * Len(buffer) - BitIndex(c)

\* Bit j (0-based, MSB-first inside each byte) of the buffer.
BufferBit(j) == (buffer[(j \div 8) + 1] \div Pow2(7 - (j % 8))) % 2

\* The n bits of the buffer from bit index j.
NextBits(j, n) == [i \in 1..n |-> BufferBit(j + i - 1)]

\* C5: for every n in 1..32 with at least n bits remaining, peek(n) followed by
\* read(n) returns the same value from both calls, and the cursor has then
\* advanced by exactly n bits from where it was before the peek.
C5_PeekThenRead ==
    (/\ call.op = "read"
     /\ prevCall.op = "peek"
     /\ prevCall.arg = call.arg
     /\ BitsRemaining(prevCall.before) >= call.arg)
    => /\ prevCall.ok
       /\ call.ok
       /\ call.value = prevCall.value
       /\ bitPosition \in 0..7
       /\ BitIndex(Cursor) = BitIndex(prevCall.before) + call.arg

\* a 32-bit peek and read from the middle of a byte
C5_Witness ==
    /\ call.op = "read"
    /\ prevCall.op = "peek"
    /\ call.arg = 32
    /\ prevCall.before[2] = 3
    /\ call.ok
    /\ prevCall.ok

\* C6: for every n in 1..32 and every cursor with at least n bits remaining,
\* read(n) returns an unsigned integer in [0, 2^n - 1] equal to the next n bits
\* of the buffer taken MSB-first, also for n = 32 with a leading 1 bit.
C6_ReadUnsignedMsbFirst ==
    (/\ call.op = "read"
     /\ BitsRemaining(call.before) >= call.arg)
    => /\ call.ok
       /\ call.value >= 0
       /\ BitsOf(call.value, call.arg) = NextBits(BitIndex(call.before), call.arg)

\* C7: peek(n) never advances the reader, whether it returns a value or fails.
C7_PeekKeepsCursor ==
    call.op = "peek" => Cursor = call.before

\* C8 as stated: a byte-aligned read issued while the bit position is not 0
\* fails (Misaligned) and returns no data.
C8_MisalignedReadFails ==
    (call.op \in {"readBytes", "readInt"} /\ call.before[2] # 0)
    => (~call.ok /\ call.data = <<>>)

\* C8 as the code has it: a byte-aligned read issued while the bit position is
\* not 0 is never refused for that: it moves to the next byte boundary, dropping
\* the pending bits, and reads from there; it fails only with too few bytes
\* after that boundary or (readInt) a byte count other than 1, 2, 4, 8; the
\* cursor ends byte-aligned either way.
C8_MisalignedReadAligns ==
    (call.op \in {"readBytes", "readInt"} /\ call.before[2] # 0)
    => LET start  == call.before[1] + 1
           n      == call.arg
           enough == start + n <= Len(buffer)
       IN  /\ bitPosition = 0
           /\ position = IF enough THEN start + n ELSE start
           /\ ~enough => (~call.ok /\ call.err = "Not enough data to read")
           /\ (enough /\ call.op = "readBytes")
                => (call.ok /\ call.data = SubSeq(buffer, start + 1, start + n))
           /\ (enough /\ call.op = "readInt")
                => (call.ok <=> n \in {1, 2, 4, 8})
           /\ (enough /\ call.op = "readInt" /\ ~call.ok)
                => call.err = "Invalid byte count: must be 1, 2, 4, or 8"

\* a two-byte read issued three bits into a byte
C8_Witness ==
    /\ call.op = "readBytes"
    /\ call.before[2] = 3
    /\ call.ok
    /\ Len(call.data) = 2

\* C26: after any sequence of read, peek, skip, align and setPosition calls,
\* failed ones included, 0 <= bitPosition <= 7 and 0 <= position <= N for a
\* buffer of N bytes.
C26_CursorInBuffer ==
    /\ bitPosition \in 0..7
    /\ position \in 0..Len(buffer)

(***************************************************************************)
(* Claims about the Huffman tables (checked under SpecHuff).               *)
(***************************************************************************)
RECURSIVE MaxOf(_)
MaxOf(lengths) ==
    IF Len(lengths) = 0 THEN 0 ELSE Max(Head(lengths), MaxOf(Tail(lengths)))

\* sum of 2^(maxlen - L[i]) over the nonzero L[i]
RECURSIVE KraftSum(_, _)
KraftSum(lengths, maxlen) ==
    IF Len(lengths) = 0 THEN 0
    ELSE (IF Head(lengths) > 0 THEN Pow2(maxlen - Head(lengths)) ELSE 0)
         + KraftSum(Tail(lengths), maxlen)

CompleteTree(lengths) ==
    KraftSum(lengths, MaxOf(lengths)) = Pow2(MaxOf(lengths))

\* the code of a symbol in a table, as a bit string
CodeOf(tree, symbol) ==
    LET i == CHOOSE k \in 1..Len(tree.symbols) : tree.symbols[k] = symbol
    IN  BitsOf(tree.codes[i], tree.lengths[i])

RECURSIVE CodeBitsOf(_, _)
CodeBitsOf(tree, syms) ==
    IF Len(syms) = 0 THEN <<>>
    ELSE CodeOf(tree, Head(syms)) \o CodeBitsOf(tree, Tail(syms))

\* C9: building a table from a length vector whose nonzero lengths do not form
\* a complete tree fails and yields no table.
C9_IncompleteRejected ==
    (huffPc # "new" /\ huffPc # "idle" /\ ~CompleteTree(hLengths))
    => (~hTree.ok /\ hTree.tree = EmptyTree)

\* C10: for a complete tree with maximum length at most 16 and a stream S of
\* its symbols written MSB-first, the first k decodeSymbol calls (k <= len(S))
\* return the first k symbols of S and leave the reader just after their
\* codes; after len(S) calls exactly the bits written have been consumed.
C10_HuffmanRoundTrip ==
    (/\ huffPc = "decode"
     /\ CompleteTree(hLengths)
     /\ MaxOf(hLengths) <= maxCodeLength
     /\ Len(decoded) <= Len(symbolsWritten))
    => LET k == Len(decoded)
       IN  /\ \A j \in 1..k : decoded[j].ok /\ decoded[j].symbol = symbolsWritten[j]
           /\ bitPosition \in 0..7
           /\ BitIndex(Cursor) = Len(CodeBitsOf(hTree.tree, SubSeq(symbolsWritten, 1, k)))
           /\ (k = Len(symbolsWritten)) => BitIndex(Cursor) = Len(bitsWritten)

\* two symbols, the second with a 16-bit code, both decoded
C10_Witness ==
    /\ huffPc = "decode"
    /\ hLengths = Deep16
    /\ symbolsWritten = <<2, 16>>
    /\ Len(decoded) = 2
    /\ decoded[2].ok
    /\ decoded[2].symbol = 16

\* the bits a step has moved the reader over
BitsRead == NextBits(BitIndex(Cursor), BitIndex(Cursor') - BitIndex(Cursor))

\* the table entries whose code is this bit string
EntriesCoded(tree, bits) ==
    {i \in 1..Len(tree.codes) :
        /\ tree.lengths[i] = Len(bits)
        /\ tree.codes[i] < Pow2(tree.lengths[i])
        /\ BitsOf(tree.codes[i], tree.lengths[i]) = bits}

\* C11: every decodeSymbol call reads at most 16 bits; it returns a symbol
\* whose code, of length 1..16, is the bits read, or it fails with "Invalid
\* Huffman code" after 16 bits of which no prefix is a code, or with the end of
\* the stream; a 17th bit is never read.
C11_DecodeSymbolBounded ==
    [][(Len(decoded') = Len(decoded) + 1)
       => LET r == decoded'[Len(decoded')]
              n == BitIndex(Cursor') - BitIndex(Cursor)
          IN  /\ n \in 0..maxCodeLength
              /\ r.ok => /\ n \in 1..maxCodeLength
                         /\ \E i \in EntriesCoded(hTree.tree, BitsRead) :
                                hTree.tree.symbols[i] = r.symbol
              /\ ~r.ok =>
                    \/ /\ r.err = "Invalid Huffman code"
                       /\ n = maxCodeLength
                       /\ \A k \in 1..n :
                              EntriesCoded(hTree.tree, SubSeq(BitsRead, 1, k)) = {}
                    \/ /\ r.err = "Unexpected end of stream while decoding Huffman symbol"
                       /\ n < maxCodeLength
                       /\ BitIndex(Cursor') = 8 * Len(buffer)]_vars

\* a call that read 16 bits of a received stream and found no code
C11_Witness ==
    /\ huffPc = "received"
    /\ hLengths = <<1>>
    /\ buffer = <<255, 255, 255>>
    /\ Len(decoded) = 1
    /\ ~decoded[1].ok
    /\ decoded[1].err = "Invalid Huffman code"
    /\ BitIndex(Cursor) = 16

(***************************************************************************)
(* Claims about the LZX codec (checked under SpecLzx).                     *)
(***************************************************************************)
\* C3: for every byte sequence x and every reset interval, decode applied to
\* the compressedData of compress(x) and asked for len(x) bytes returns x.
C3_DecodeOfCompress ==
    lzxPc = "decoded" => (lzxResult.ok /\ lzxResult.data = lzxInput)

\* a foreign stream of each block type decodes to its bytes
LzxForeignDecodes ==
    lzxPc = "decodedForeign" =>
        /\ (buffer = UncompressedStream /\ lzxWanted = 2)
              => (lzxResult.ok /\ lzxResult.data = <<65, 200>>)
        /\ (buffer = TwoBlockStream /\ lzxWanted = 2)
              => (lzxResult.ok /\ lzxResult.data = <<65, 200>>)
        /\ (buffer = VerbatimStream /\ lzxWanted = 2)
              => (lzxResult.ok /\ lzxResult.data = <<65, 200>>)
        /\ (buffer = AlignedStream /\ lzxWanted = 1)
              => (lzxResult.ok /\ lzxResult.data = <<154>>)

(***************************************************************************)
(* Claims about archives (checked under SpecChm).                          *)
(***************************************************************************)
\* what reconstructFile returns for this name on a reader that has read nothing
FreshExtract(fileName) == reconstructFile(chmParsed, buffer, 0, 0, fileName)

\* C1: extraction is history-independent: every reconstructFile call on the
\* shared reader returns, for its name, the bytes a first call would return,
\* whichever calls came before it
C1_HistoryIndependent ==
    \A i \in 1..Len(extracted) :
        /\ extracted[i].ok = FreshExtract(extracted[i].name).ok
        /\ extracted[i].data = FreshExtract(extracted[i].name).data

NamesOf(entries) == {entries[i].name : i \in 1..Len(entries)}

\* C2: what CHMEncoder.encode writes is accepted by the parser, the parsed
\* entry map has the names of the encoder's directory, and extracting each
\* name returns the bytes packed under it
C2_PackOpenRoundTrip ==
    (chmOrigin = "encoder" /\ chmPc \in {"opened", "rejected"}) =>
        /\ chmParsed.ok
        /\ NamesOf(chmParsed.entries) = NamesOf(chmPacked.directoryEntries)
        /\ \A i \in 1..Len(chmPacked.files) :
               /\ FreshExtract(chmPacked.files[i].name).ok
               /\ FreshExtract(chmPacked.files[i].name).data = chmPacked.files[i].content

\* the entry reconstructFile works on for this name
EntryFor(fileName) == chmParsed.entries[findFileEntry(chmParsed.entries, fileName)]

\* C4 as stated: a successful extraction returns exactly e.length bytes, for
\* compressed and uncompressed entries alike
C4_LengthBytes ==
    \A i \in 1..Len(extracted) :
        extracted[i].ok => Len(extracted[i].data) = EntryFor(extracted[i].name).length

\* C4: a successful extraction returns exactly e.uncompressedLength bytes
\* when e is compressed and exactly e.length bytes when it is not
C4_SizeBytes ==
    \A i \in 1..Len(extracted) :
        extracted[i].ok =>
            Len(extracted[i].data) =
                IF EntryFor(extracted[i].name).isCompressed
                THEN EntryFor(extracted[i].name).uncompressedLength
                ELSE EntryFor(extracted[i].name).length

\* a compressed entry whose two lengths differ and a stored entry, both
\* extracted
C4_Witness ==
    /\ \E i \in 1..Len(extracted) :
           /\ extracted[i].ok
           /\ EntryFor(extracted[i].name).isCompressed
           /\ EntryFor(extracted[i].name).uncompressedLength
                  # EntryFor(extracted[i].name).length
           /\ Len(extracted[i].data) = 2
    /\ \E i \in 1..Len(extracted) :
           /\ extracted[i].ok
           /\ ~EntryFor(extracted[i].name).isCompressed
           /\ Len(extracted[i].data) = 3

(***************************************************************************)
(* Claims about the sliding window (checked under SpecWin).                *)
(***************************************************************************)
\* the d bytes that preceded the write position of window w, oldest first
Preceding(w, d) == [k \in 1..d |-> w.data[((w.position - d + k - 1 + w.size) % w.size) + 1]]

\* C12: for a window of size W, any contents and write position, d in 1..W
\* and L >= 0, copyData(d, L) returns out with out[i] = h[i mod d], h being the
\* d bytes before the write position at the call; the bytes are also the last
\* L written to the window, which then stands L positions further round.
C12_CopySelfExtends ==
    (winCall.op = "copyData" /\ winCall.offset \in 1..winSize)
    => LET d == winCall.offset
           L == winCall.length
           h == Preceding(winCall.before, d)
           p == winCall.before.position
       IN  /\ winCall.ok
           /\ winCall.data = [i \in 1..L |-> h[((i - 1) % d) + 1]]
           /\ winPosition = (p + L) % winSize
           /\ \A i \in 1..L :
                  (L - i < winSize) => winData[((p + i - 1) % winSize) + 1] = winCall.data[i]
           /\ \A k \in 1..winSize :
                  (\A i \in 1..L : (p + i - 1) % winSize # k - 1)
                  => winData[k] = winCall.before.data[k]

\* a copy longer than its distance that runs across the end of the buffer
C12_Witness ==
    /\ winCall.op = "copyData"
    /\ winCall.ok
    /\ winSize = 3
    /\ winCall.offset = 2
    /\ winCall.length = 5
    /\ winCall.before.position = 2
    /\ winCall.before.data = <<65, 66, 0>>
    /\ winCall.data = <<65, 66, 65, 66, 65>>

\* C30: after any sequence of write, writeByte, copyData and reset calls on a
\* window of size W, getUsage() is min(W, bytes written since the last reset),
\* and canReadBack(d, L) is true for every distance d from 1 to that number.
C30_UsageCountsWrittenBytes ==
    /\ getUsage(Window) = Min(winSize, winCall.written)
    /\ \A d \in 1..Min(winSize, winCall.written), L \in 1..MaxCopy :
           canReadBack(Window, d, L)

(***************************************************************************)
(* Claims about opening an archive (checked under SpecChm).                *)
(***************************************************************************)
\* the little-endian 32-bit field at byte offset at of the file
FileField(at) == Int32LE(SubSeq(buffer, at + 1, at + 4))

\* the ITSF header of the file breaks its invariant: header length below 96,
\* directory offset not above 96, or directory length 0
ItsfInvariantBroken ==
    \/ FileField(8) < ITSF_LENGTH
    \/ FileField(32) <= ITSF_LENGTH
    \/ FileField(36) = 0

\* C13: opening fails and returns no parsed archive whenever the ITSF header
\* has directory_offset <= 96, directory_length = 0 or header length < 96.
C13_BrokenItsfRejected ==
    (chmPc \in {"opened", "rejected"} /\ Len(buffer) >= ITSF_LENGTH /\ ItsfInvariantBroken)
    => (chmPc = "rejected" /\ ~chmParsed.ok)

\* C14: the file packed from zero entries opens, its listing is empty, and
\* extracting any name from it fails with "file not found".
C14_EmptyArchive ==
    (/\ chmOrigin = "encoder"
     /\ chmPacked.files = generateTOCAndIndex(<<>>)
     /\ chmPc \in {"opened", "rejected"})
    => /\ chmParsed.ok
       /\ chmParsed.entries = <<>>
       /\ \A fileName \in ExtractNames :
              /\ ~FreshExtract(fileName).ok
              /\ FreshExtract(fileName).err = "file not found"

\* C16: when CHMParser.parse starts reading the directory chunks, the reader
\* stands at byte ITSF.directoryOffset of the file.
C16_DirectoryReadAtOffset ==
    (chmPc = "opened" /\ chmParsed.ok)
    => chmParsed.directoryAt = chmParsed.header[1].directoryOffset

\* C18: every directory entry the encoder builds locates its file in the
\* uncompressed stream handed to the compressor: the stream's bytes at
\* [offset, offset + length) are the file's content.
C18_EntryOffsetsInStream ==
    (chmOrigin = "encoder" /\ chmPc # "new")
    => \A i \in 1..Len(chmPacked.directoryEntries) :
           SubSeq(CombinedContent(chmPacked.files),
                  chmPacked.directoryEntries[i].offset + 1,
                  chmPacked.directoryEntries[i].offset
                      + chmPacked.directoryEntries[i].length)
           = chmPacked.files[i].content

\* the three header parsers run one after the other from the first byte of
\* the file, as parseHeaders runs them
ItsfRead == ITSFHeaderParser_parse(buffer, 0, 0)

ItspRead == ITSPHeaderParser_parse(buffer, ItsfRead.position, ItsfRead.bitPosition)

LzxcRead == LZXCHeaderParser_parse(buffer, ItspRead.position, ItspRead.bitPosition)

\* C20: a header parser that succeeds leaves the reader at the first byte
\* after its header: 96 bytes on for ITSF, 84 for ITSP, 40 for LZXC.
C20_HeadersConsumed ==
    (chmPc # "new" /\ ItsfRead.ok /\ ItspRead.ok /\ LzxcRead.ok)
    => /\ ItsfRead.position = ITSF_LENGTH
       /\ ItspRead.position = ItsfRead.position + ITSP_LENGTH
       /\ LzxcRead.position = ItspRead.position + LZXC_LENGTH
       /\ ItsfRead.bitPosition = 0 /\ ItspRead.bitPosition = 0 /\ LzxcRead.bitPosition = 0

\* name a sorts before name b: at the first place where they differ a has
\* the smaller code, or a ends there
NameBefore(a, b) ==
    \E k \in 1..(Len(b)) :
        /\ \A j \in 1..(k - 1) : j <= Len(a) /\ a[j] = b[j]
        /\ (k > Len(a) \/ (k <= Len(a) /\ a[k] < b[k]))

\* C23: the directory entries CHMEncoder.encode emits are in ascending name
\* order, the generated table of contents and index included.
C23_EntriesSortedByName ==
    (chmOrigin = "encoder" /\ chmPc # "new")
    => \A i \in 1..(Len(chmPacked.directoryEntries) - 1) :
           NameBefore(chmPacked.directoryEntries[i].name,
                      chmPacked.directoryEntries[i + 1].name)

\* C25: fileExists(name) is true exactly when reconstructFile(name) locates
\* an entry, for every name asked of an opened archive.
C25_ExistsAgreesWithExtract ==
    \A i \in 1..Len(extracted) :
        fileExists(chmParsed.entries, extracted[i].name)
        <=> (extracted[i].err # "file not found")

(***************************************************************************)
(* Claims about the reset table.                                           *)
(***************************************************************************)
\* the entries LZXEncoder.compress handed to generateResetTable
WrittenResetEntries ==
    CompressBlocks(lzxInput, 0, OrDefault(lzxConfig.resetInterval, DefaultResetInterval),
                   OrDefault(lzxConfig.windowSize, DefaultWindowSize)).entries

\* parseResetTable on a reader at the first byte of the table written
ReadBackResetTable == parseResetTable(lzxCompressed.resetTable, 0, 0)

\* C19: parseResetTable at the first byte of a reset table written by
\* generateResetTable succeeds and returns the version, block count, entry
\* size and entries that were written.
C19_ResetTableRoundTrip ==
    (lzxPc \in {"compressed", "decoded"})
    => /\ lzxCompressed.resetTable = generateResetTable(WrittenResetEntries)
       /\ ReadBackResetTable.ok
       /\ ReadBackResetTable.table.version = ResetTableVersion
       /\ ReadBackResetTable.table.blockCount = Len(WrittenResetEntries)
       /\ ReadBackResetTable.table.entrySize = ResetTableEntrySize
       /\ ReadBackResetTable.table.entries = WrittenResetEntries

\* the reset interval the encoder works with
EncoderResetInterval == OrDefault(lzxConfig.resetInterval, DefaultResetInterval)

\* the 32-bit little-endian number at byte at of the reset table written
TableField(at) == UIntLE(lzxCompressed.resetTable, at, 4)

\* entry k of the reset table written, k from 1
TableCompressed(k) == TableField(ResetTableHeaderSize + ResetTableEntrySize * (k - 1))

TableUncompressed(k) == TableField(ResetTableHeaderSize + ResetTableEntrySize * (k - 1) + 4)

RECURSIVE SumCompressed(_)
SumCompressed(k) == IF k = 0 THEN 0 ELSE TableCompressed(k) + SumCompressed(k - 1)

RECURSIVE SumUncompressed(_)
SumUncompressed(k) == IF k = 0 THEN 0 ELSE TableUncompressed(k) + SumUncompressed(k - 1)

\* C22: the reset table LZXEncoder.compress writes for input x and reset
\* interval R has ceil(len(x) / R) entries, every entry but the last covers R
\* uncompressed bytes, the uncompressed lengths sum to len(x) and the
\* compressed lengths to the length of compressedData.
C22_EntryPerInterval ==
    (lzxPc \in {"compressed", "decoded"})
    => /\ TableField(4) = (Len(lzxInput) + EncoderResetInterval - 1) \div EncoderResetInterval
       /\ Len(lzxCompressed.resetTable)
              = ResetTableHeaderSize + ResetTableEntrySize * TableField(4)
       /\ \A k \in 1..(TableField(4) - 1) : TableUncompressed(k) = EncoderResetInterval
       /\ SumUncompressed(TableField(4)) = Len(lzxInput)
       /\ SumCompressed(TableField(4)) = Len(lzxCompressed.compressedData)
       /\ lzxCompressed.compressedSize = Len(lzxCompressed.compressedData)

\* three bytes under a reset interval of two: two entries, the last of one byte
C22_Witness ==
    /\ lzxPc = "compressed"
    /\ Len(lzxInput) = 3
    /\ EncoderResetInterval = 2
    /\ TableField(4) = 2
    /\ TableUncompressed(1) = 2
    /\ TableUncompressed(2) = 1

(***************************************************************************)
(* Claims about the decoder's window.                                      *)
(***************************************************************************)
\* the window a decoder holds when it was reset at the last multiple of
\* resetInterval its output reached: only the bytes put out since then
WindowSinceBoundary(decoder, output) ==
    SlidingWindow_write(NewWindow(decoder.windowSize),
        SubSeq(output,
               (Len(output) \div decoder.resetInterval) * decoder.resetInterval + 1,
               Len(output)))

\* C17: after decoding more bytes than one reset interval, the window holds
\* nothing written before the last multiple of the interval the output
\* reached: it was reset there.
C17_WindowResetAtInterval ==
    (/\ lzxPc \in {"decoded", "decodedForeign"}
     /\ lzxResult.ok
     /\ Len(lzxResult.data) > lzxDecoder.resetInterval)
    => lzxDecoder.window = WindowSinceBoundary(lzxDecoder, lzxResult.data)

(***************************************************************************)
(* The configuration: a process calls getConfig and resetConfigCache while *)
(* the configuration file is written, replaced and removed.                *)
(***************************************************************************)
LzxSection(windowSize) == JsonObject([key \in {"windowSize"} |-> JsonNumber(windowSize)])

\* the file absent, not JSON, a JSON number, and configurations: one that
\* sets lzx.windowSize, one that puts a number where the section cli is, one
\* with a key that validateConfig deletes
ConfigFiles ==
    {NoFile,
     [exists |-> TRUE, parses |-> FALSE, json |-> JsonNull],
     [exists |-> TRUE, parses |-> TRUE, json |-> JsonNumber(5)],
     [exists |-> TRUE, parses |-> TRUE,
      json |-> JsonObject([key \in {"lzx"} |-> LzxSection(65536)])],
     [exists |-> TRUE, parses |-> TRUE,
      json |-> JsonObject([key \in {"lzx", "cli"} |->
                              IF key = "lzx" THEN LzxSection(131072) ELSE JsonNumber(0)])],
     [exists |-> TRUE, parses |-> TRUE,
      json |-> JsonObject([key \in {"theme"} |-> JsonNumber(1)])]}

ConfigInit ==
    /\ configFile \in ConfigFiles
    /\ cachedConfig = NoConfigObject
    /\ configLoads = 0
    /\ configCall = NoConfigCall
    /\ buffer = <<>>
    /\ position = 0
    /\ bitPosition = 0
    /\ call = NoCall
    /\ prevCall = NoCall
    /\ HuffIdle
    /\ LzxIdle
    /\ ChmIdle
    /\ WinIdle
    /\ HeaderIdle
    /\ ProcessorIdle
    /\ DecodeStepsIdle

GetConfig(forceReload) ==
    /\ configCall.calls < MaxConfigCalls
    /\ \E r \in {getConfig(cachedConfig, forceReload, configFile, configLoads)} :
          /\ cachedConfig' = r.cached
          /\ configLoads' = r.loads
          /\ configCall' = [op |-> "getConfig", forceReload |-> forceReload,
                            returned |-> r.cached,
                            calls |-> configCall.calls + 1,
                            getsSinceReset |-> configCall.getsSinceReset + 1]
    /\ UNCHANGED <<configFile, offConfig>>

ResetConfigCache ==
    /\ configCall.calls < MaxConfigCalls
    /\ cachedConfig' = resetConfigCache
    /\ configCall' = [op |-> "resetConfigCache", forceReload |-> FALSE,
                      returned |-> NoConfigObject,
                      calls |-> configCall.calls + 1,
                      getsSinceReset |-> 0]
    /\ UNCHANGED <<configFile, configLoads, offConfig>>

\* another process writes, replaces or removes the configuration file
WriteConfigFile(file) ==
    /\ configCall.calls < MaxConfigCalls
    /\ file # configFile
    /\ configFile' = file
    /\ UNCHANGED <<cachedConfig, configLoads, configCall, offConfig>>

ConfigNext ==
    \/ \E forceReload \in BOOLEAN : GetConfig(forceReload)
    \/ ResetConfigCache
    \/ \E file \in ConfigFiles : WriteConfigFile(file)

SpecConfig == ConfigInit /\ [][ConfigNext]_vars

(***************************************************************************)
(* Claims about the configuration cache.                                   *)
(***************************************************************************)
\* C15: a getConfig call loads the configuration exactly when it is called
\* with forceReload or no getConfig has been called since the start or the
\* last resetConfigCache; every other getConfig returns the object the call
\* before it returned, and resetConfigCache loads nothing.
C15_ConfigCache ==
    [][(configCall'.calls = configCall.calls + 1) =>
          /\ configLoads' \in {configLoads, configLoads + 1}
          /\ (configLoads' = configLoads + 1)
                <=> (/\ configCall'.op = "getConfig"
                     /\ (configCall'.forceReload \/ configCall.getsSinceReset = 0))
          /\ (configCall'.op = "getConfig" /\ configLoads' = configLoads)
                => (/\ configCall'.returned = configCall.returned
                    /\ configCall'.returned.value.kind = "object")]_vars

\* a second getConfig() answered from the cache after the file has changed:
\* one load, and the object returned is not what a load would give now
C15_Witness ==
    /\ configCall.op = "getConfig"
    /\ ~configCall.forceReload
    /\ configCall.getsSinceReset = 2
    /\ configLoads = 1
    /\ configCall.returned.id = 1
    /\ configCall.returned.value # loadConfig(configFile, 2).value

(***************************************************************************)
(* A header record through its serializer and its parser.  A field of the  *)
(* record is a number in 0..2^32-1, given as its two 16-bit halves; the    *)
(* other fields are as createITSFHeader, createITSPHeader and              *)
(* createLZXCHeader set them.                                              *)
(***************************************************************************)
\* The integer that stands for the field value 65536 * hi + lo in a record
\* handed to a serializer: the value itself below 2^31, and above it the
\* integer 2^32 less, which writeUInt32LE's four bytes are the same for.
U32(hi, lo) == IF hi < 32768 THEN 65536 * hi + lo ELSE 65536 * (hi - 65536) + lo

\* the fields the parsers read without a check of their own
FreeFields(kind) ==
    CASE kind = "ITSF" -> {"unknown1", "timestamp", "languageId", "unknown2", "unknown3",
                           "directoryOffset", "directoryLength", "unknown4"}
      [] kind = "ITSP" -> {"unknown1", "chunkSize", "density", "depth", "rootIndex",
                           "firstPMGI", "lastPMGI", "unknown2"}
      [] kind = "LZXC" -> {"resetInterval", "cacheSize", "unknown"}

\* 0, 1, 65535, 65536, 2^31 - 1, 2^31, 2^32 - 1
FieldValues ==
    {<<0, 0>>, <<0, 1>>, <<0, 65535>>, <<1, 0>>, <<32767, 65535>>, <<32768, 0>>,
     <<65535, 65535>>}

HeaderInputs ==
    {[kind |-> kind, field |-> field, value |-> value] :
        kind \in {"ITSF", "ITSP", "LZXC"}, field \in FreeFields("ITSF") \cup
        FreeFields("ITSP") \cup FreeFields("LZXC"), value \in FieldValues}

\* the record as the builder creates it
CreatedHeader(kind) ==
    CASE kind = "ITSF" -> createITSFHeader(ITSF_LENGTH + ITSP_LENGTH + LZXC_LENGTH, 1, 0)
      [] kind = "ITSP" -> createITSPHeader
      [] kind = "LZXC" -> createLZXCHeader(0, 0)

\* the record handed to the serializer
HeaderRecord(input) ==
    [CreatedHeader(input.kind) EXCEPT ![input.field] = U32(input.value[1], input.value[2])]

serializeHeader(kind, header) ==
    CASE kind = "ITSF" -> serializeITSFHeader(header)
      [] kind = "ITSP" -> serializeITSPHeader(header)
      [] kind = "LZXC" -> serializeLZXCHeader(header)

parseHeader(kind, buf) ==
    CASE kind = "ITSF" -> ITSFHeaderParser_parse(buf, 0, 0)
      [] kind = "ITSP" -> ITSPHeaderParser_parse(buf, 0, 0)
      [] kind = "LZXC" -> LZXCHeaderParser_parse(buf, 0, 0)

HeaderInit ==
    /\ hdrInput \in {input \in HeaderInputs : input.field \in FreeFields(input.kind)}
    /\ hdrBytes = <<>>
    /\ hdrParsed = NoHeaderParsed
    /\ hdrPc = "new"
    /\ buffer = <<>>
    /\ position = 0
    /\ bitPosition = 0
    /\ call = NoCall
    /\ prevCall = NoCall
    /\ HuffIdle
    /\ LzxIdle
    /\ ChmIdle
    /\ WinIdle
    /\ ConfigIdle
    /\ ProcessorIdle
    /\ DecodeStepsIdle

\* CHMHeaderBuilder.serializeITSFHeader, serializeITSPHeader, serializeLZXCHeader
SerializeHeader ==
    /\ hdrPc = "new"
    /\ hdrBytes' = serializeHeader(hdrInput.kind, HeaderRecord(hdrInput))
    /\ hdrPc' = "serialized"
    /\ UNCHANGED <<hdrInput, hdrParsed, offHdr>>

\* ITSFHeaderParser.parse, ITSPHeaderParser.parse, LZXCHeaderParser.parse on a
\* reader at the first byte
ParseSerialized ==
    /\ hdrPc = "serialized"
    /\ hdrParsed' = parseHeader(hdrInput.kind, hdrBytes)
    /\ hdrPc' = "parsed"
    /\ UNCHANGED <<hdrInput, hdrBytes, offHdr>>

HeaderNext ==
    \/ SerializeHeader
    \/ ParseSerialized

SpecHeaders == HeaderInit /\ [][HeaderNext]_vars

(***************************************************************************)
(* Claims about the header round trip.                                     *)
(***************************************************************************)
\* the number n a parser returned is the field value 65536 * hi + lo
SameAsWritten(n, value) ==
    /\ n >= 0
    /\ n \div 65536 = value[1]
    /\ n % 65536 = value[2]

\* C21: parsing the bytes a serializer produced for a record with the right
\* signature and version returns the record: the field set anywhere in
\* 0..2^32-1 comes back as it was written, and so do the others.
C21_HeaderRoundTrip ==
    (hdrPc = "parsed")
    => /\ hdrParsed.ok
       /\ \A field \in DOMAIN CreatedHeader(hdrInput.kind) :
              IF field = hdrInput.field
              THEN SameAsWritten(hdrParsed.fields[field], hdrInput.value)
              ELSE hdrParsed.fields[field] = CreatedHeader(hdrInput.kind)[field]

(***************************************************************************)
(* Claims about the matches of the encoder.                                *)
(***************************************************************************)
EncoderWindowSize == OrDefault(lzxConfig.windowSize, DefaultWindowSize)

\* block k (from 0) of the compressed input, as compress slices it
InputBlock(k) ==
    SubSeq(lzxInput, k * EncoderResetInterval + 1,
           Min((k + 1) * EncoderResetInterval, Len(lzxInput)))

\* the matches compressBlock handed to outputMatch, over all blocks
EmittedMatches ==
    UNION {{CompressFrom(InputBlock(k), LoopEntry, 0, Len(InputBlock(k)),
                         EncoderWindowSize).matches[j] :
            j \in 1..Len(CompressFrom(InputBlock(k), LoopEntry, 0, Len(InputBlock(k)),
                                      EncoderWindowSize).matches)} :
           k \in 0..((Len(lzxInput) + EncoderResetInterval - 1) \div EncoderResetInterval - 1)}

\* C24: every match the encoder emits has a length from 3 to 257 and a
\* distance from 1 to the window size.
C24_MatchBounds ==
    lzxPc \in {"compressed", "decoded"}
    => \A match \in EmittedMatches :
           /\ match.length \in 3..257
           /\ match.distance \in 1..EncoderWindowSize

(***************************************************************************)
(* A ResetTableProcessor under a sequence of parseResetTable calls, each   *)
(* over a reader at the start of some bytes, and of its queries.           *)
(***************************************************************************)
\* the bytes of a table in the layout parseResetTable reads
RECURSIVE TableEntryBytes(_)
TableEntryBytes(entries) ==
    IF Len(entries) = 0 THEN <<>>
    ELSE BE32(Head(entries).compressedLength) \o BE32(Head(entries).uncompressedLength)
         \o TableEntryBytes(Tail(entries))

TableBytes(version, blockCount, entrySize, tableOffset, entries) ==
    BE32(version) \o BE32(blockCount) \o BE32(entrySize) \o BE32(tableOffset)
    \o BE32(0) \o BE32(0) \o BE32(DefaultResetInterval) \o TableEntryBytes(entries)

TableEntries == [compressedLength : {1, MaxBlockLength}, uncompressedLength : {1}]

TableOffsets == {0, 3}

\* tables parseResetTable accepts: blocks of 1 and MaxBlockLength bytes, and
\* three with an empty block, a block of no output and a negative length
WellFormedTables ==
    {TableBytes(ResetTableVersion, Len(entries), ResetTableEntrySize, tableOffset, entries) :
        entries \in SeqsUpTo(TableEntries, MaxBlocks) \ {<<>>}, tableOffset \in TableOffsets}
    \cup {TableBytes(2, 1, 8, 0, <<[compressedLength |-> 0, uncompressedLength |-> 1]>>),
          TableBytes(2, 1, 8, 0, <<[compressedLength |-> 1, uncompressedLength |-> 0]>>),
          TableBytes(2, 2, 8, 0 - 1, <<[compressedLength |-> 2, uncompressedLength |-> 1],
                                       [compressedLength |-> 0 - 1, uncompressedLength |-> 1]>>)}

\* tables on which it throws: the version, the block count, the entry size,
\* and the input ending in the header and in the entries
RejectedTables ==
    {TableBytes(3, 1, 8, 0, <<[compressedLength |-> 1, uncompressedLength |-> 1]>>),
     TableBytes(2, 0, 8, 0, <<>>),
     TableBytes(2, 0 - 1, 8, 0, <<>>),
     TableBytes(2, 1, 4, 0, <<[compressedLength |-> 1, uncompressedLength |-> 1]>>),
     TableBytes(2, 2, 8, 0, <<[compressedLength |-> 1, uncompressedLength |-> 1]>>),
     SubSeq(TableBytes(2, 1, 8, 0, <<>>), 1, 18),
     <<>>}

BlockIndexes == (0 - 1)..MaxBlocks

Offsets == (0 - 2)..MaxOffset

ProcessorInit ==
    /\ rtStored = NullTable
    /\ rtCall = NoProcessorCall
    /\ buffer = <<>>
    /\ position = 0
    /\ bitPosition = 0
    /\ call = NoCall
    /\ prevCall = NoCall
    /\ HuffIdle
    /\ LzxIdle
    /\ ChmIdle
    /\ WinIdle
    /\ ConfigIdle
    /\ HeaderIdle
    /\ DecodeStepsIdle

\* processor.parseResetTable(new BitReader(bytes)); the reader is the
\* caller's, where the call left it is kept with the call
ParseResetTable(bytes) ==
    /\ \E r \in {parseResetTable(bytes, 0, 0)} :
           /\ rtStored' = StoreParsed(rtStored, r)
           /\ rtCall' = [op |-> "parseResetTable", arg |-> 0, ok |-> r.ok, err |-> r.err,
                         value |-> 0, truth |-> FALSE,
                         reader |-> <<r.position, r.bitPosition>>]
    /\ UNCHANGED <<readerVars, offProcessor>>

\* processor.getBlockCount()
GetBlockCount ==
    /\ rtCall' = [op |-> "getBlockCount", arg |-> 0, ok |-> TRUE, err |-> "",
                  value |-> getBlockCount(rtStored), truth |-> FALSE,
                  reader |-> <<0, 0>>]
    /\ UNCHANGED <<rtStored, readerVars, offProcessor>>

\* processor.calculateBlockOffset(blockIndex)
CalculateBlockOffset(blockIndex) ==
    /\ \E r \in {calculateBlockOffset(rtStored, blockIndex)} :
           rtCall' = [op |-> "calculateBlockOffset", arg |-> blockIndex, ok |-> r.ok,
                      err |-> r.err, value |-> r.value, truth |-> FALSE,
                      reader |-> <<0, 0>>]
    /\ UNCHANGED <<rtStored, readerVars, offProcessor>>

\* processor.findBlockByOffset(offset)
FindBlockByOffset(offset) ==
    /\ rtCall' = [op |-> "findBlockByOffset", arg |-> offset, ok |-> TRUE, err |-> "",
                  value |-> findBlockByOffset(rtStored, offset), truth |-> FALSE,
                  reader |-> <<0, 0>>]
    /\ UNCHANGED <<rtStored, readerVars, offProcessor>>

\* processor.validate()
Validate ==
    /\ rtCall' = [op |-> "validate", arg |-> 0, ok |-> TRUE, err |-> "", value |-> 0,
                  truth |-> validate(rtStored), reader |-> <<0, 0>>]
    /\ UNCHANGED <<rtStored, readerVars, offProcessor>>

ProcessorNext ==
    \/ \E bytes \in WellFormedTables \cup RejectedTables : ParseResetTable(bytes)
    \/ GetBlockCount
    \/ \E blockIndex \in BlockIndexes : CalculateBlockOffset(blockIndex)
    \/ \E offset \in Offsets : FindBlockByOffset(offset)
    \/ Validate

SpecProcessor == ProcessorInit /\ [][ProcessorNext]_vars

(***************************************************************************)
(* Claims about the reset table processor (checked under SpecProcessor).   *)
(***************************************************************************)
\* C27: a parseResetTable that throws leaves the stored table as it was:
\* getBlockCount, getBlockInfo, findBlockByOffset and validate return after
\* it what they returned before it.
C27_FailedParseKeepsTable ==
    [][(rtCall'.op = "parseResetTable" /\ ~rtCall'.ok)
       => /\ getBlockCount(rtStored') = getBlockCount(rtStored)
          /\ \A blockIndex \in BlockIndexes :
                 getBlockInfo(rtStored', blockIndex) = getBlockInfo(rtStored, blockIndex)
          /\ \A offset \in Offsets :
                 findBlockByOffset(rtStored', offset) = findBlockByOffset(rtStored, offset)
          /\ validate(rtStored') = validate(rtStored)]_vars

\* a parse threw at the end of the input on a processor that holds a valid table
C27_Witness ==
    /\ rtCall.op = "parseResetTable"
    /\ ~rtCall.ok
    /\ rtCall.err = "End of buffer reached"
    /\ validate(rtStored)

\* the blocks whose bytes include offset, by calculateBlockOffset and the
\* block's compressed length
BlocksHolding(offset) ==
    {i \in 0..(Len(rtStored.table.entries) - 1) :
        /\ calculateBlockOffset(rtStored, i).value <= offset
        /\ offset < calculateBlockOffset(rtStored, i).value
                    + rtStored.table.entries[i + 1].compressedLength}

\* C29: on a table that validates, findBlockByOffset(o) is the one block i
\* with calculateBlockOffset(i) <= o < calculateBlockOffset(i) +
\* entries[i].compressedLength, and -1 exactly when there is no such block.
C29_LookupMatchesOffsets ==
    validate(rtStored)
    => \A offset \in Offsets :
           /\ findBlockByOffset(rtStored, offset) = 0 - 1 <=> BlocksHolding(offset) = {}
           /\ findBlockByOffset(rtStored, offset) # 0 - 1
              => BlocksHolding(offset) = {findBlockByOffset(rtStored, offset)}

\* a lookup on a valid table that starts at offset 3 returned the second block
C29_Witness ==
    /\ validate(rtStored)
    /\ rtStored.table.tableOffset = 3
    /\ rtCall.op = "findBlockByOffset"
    /\ rtCall.value = 1

(***************************************************************************)
(* LZXDecoder.decode step by step: one action per turn of its while loops  *)
(* (the block loop of decode, the loop of readTreeLengths, the symbol loop  *)
(* of decodeVerbatimBlock); the for loops of a fixed count are taken whole. *)
(* The reader is the reader handed to decode.                              *)
(***************************************************************************)
\* the turn of readTreeLengths' loop for a symbol that is read and is at most
\* 19, or for a decodeSymbol that threw
KnownCodeTurn(buf, s, count, i) ==
    IF ~s.ok
    THEN [ok |-> FALSE, err |-> s.err, i |-> i, position |-> s.position,
          bitPosition |-> s.bitPosition]
    ELSE IF s.value <= 16
    THEN [ok |-> TRUE, err |-> "", i |-> i + 1, position |-> s.position,
          bitPosition |-> s.bitPosition]
    ELSE With(BitReader_read(buf, s.position, s.bitPosition,
                             CASE s.value = 17 -> 4 [] s.value = 18 -> 5 [] OTHER -> 1),
              LAMBDA r :
             [ok |-> r.ok, err |-> r.err,
              i |-> IF r.ok
                    THEN i + Min(r.value + (IF s.value = 18 THEN 20 ELSE 4), count - i)
                    ELSE i,
              position |-> r.position, bitPosition |-> r.bitPosition])

\* a loop that leaves a symbol above 19 unread
TreeLengthTurn_CodeUnread(buf, pos, bit, count, i) ==
    With(LZXDecoder_decodeSymbol(buf, pos, bit), LAMBDA s :
        IF s.ok /\ s.value > 19
        THEN [ok |-> TRUE, err |-> "", i |-> i, position |-> pos, bitPosition |-> bit]
        ELSE KnownCodeTurn(buf, s, count, i))

\* one turn of the while loop of readTreeLengths at length i: the reader and
\* i after it; a symbol above 19 is read and nothing else happens
TreeLengthTurn(buf, pos, bit, count, i) ==
    With(LZXDecoder_decodeSymbol(buf, pos, bit), LAMBDA s :
        IF s.ok /\ s.value > 19
        THEN [ok |-> TRUE, err |-> "", i |-> i, position |-> s.position,
              bitPosition |-> s.bitPosition]
        ELSE KnownCodeTurn(buf, s, count, i))

\* uncompressed blocks of no bytes, to the end of the input
ZeroBlocksStream == <<96, 0, 0, 0, 96, 0, 0, 0, 96, 0, 0, 0>>

\* an uncompressed block of no bytes before one of two bytes
ZeroThenTwoStream == <<96, 0, 0, 0>> \o UncompressedStream

\* a verbatim block of no bytes, then bytes that are no block
VerbatimZeroStream ==
    <<32, 0, 0, 0>> \o SubSeq(VerbatimStream, 5, 32) \o <<96, 0, 0, 64, 65, 200>>

\* a verbatim block whose literal lengths hold the codes 23 and 255
HighCodeStream == SubSeq(VerbatimStream, 1, 14) \o <<255, 255, 255, 255>>

\* a verbatim block with a code 200 among the codes of the literal lengths
HighCodeVerbatimStream ==
    SubSeq(VerbatimStream, 1, 14) \o <<25, 0>> \o SubSeq(VerbatimStream, 15, 34)

DecodedStreams ==
    ForeignStreams
    \cup {ZeroBlocksStream, ZeroThenTwoStream, VerbatimZeroStream, HighCodeStream,
          HighCodeVerbatimStream, <<160, 0, 0, 32>>}

\* new LZXDecoder(lzxcHeader).decode(new BitReader(stream), n) is entered:
\* result = Buffer.alloc(n), outputPosition = 0, this.reset()
DecodeStepsInit ==
    /\ buffer \in DecodedStreams
    /\ position = 0
    /\ bitPosition = 0
    /\ decWanted \in 0..MaxWanted
    /\ decResult = Zeros(decWanted)
    /\ decOutputPosition = 0
    /\ decBlock = NoBlock
    /\ decBlockData = <<>>
    /\ decBlockOut = 0
    /\ decTree = NoTreeLoop
    /\ decWindow \in {NewWindow(lzxcHeader.windowSize) : lzxcHeader \in DecoderHeaders}
    /\ decPc = "blockLoop"
    /\ call = NoCall
    /\ prevCall = NoCall
    /\ HuffIdle
    /\ LzxIdle
    /\ ChmIdle
    /\ WinIdle
    /\ ConfigIdle
    /\ HeaderIdle
    /\ ProcessorIdle

\* the reader moves to where a call left it
ReaderAt(r) ==
    /\ position' = r.position
    /\ bitPosition' = r.bitPosition
    /\ UNCHANGED buffer

\* decode throws
Throws ==
    /\ decPc' = "thrown"
    /\ UNCHANGED <<decWanted, decResult, decOutputPosition, decBlock, decBlockData,
                   decBlockOut, decTree, decWindow>>

\* the block loop's test fails: return result
ReturnResult ==
    /\ decPc = "blockLoop"
    /\ decOutputPosition >= decWanted
    /\ decPc' = "returned"
    /\ UNCHANGED <<readerVars, decWanted, decResult, decOutputPosition, decBlock,
                   decBlockData, decBlockOut, decTree, decWindow, offDecodeSteps>>

\* a turn of the block loop up to the first inner while loop: readBlockHeader,
\* then decodeBlock; an uncompressed block is read whole, a verbatim or an
\* aligned block goes as far as the pretree lengths
BeginBlock ==
    /\ decPc = "blockLoop"
    /\ decOutputPosition < decWanted
    /\ \E block \in {readBlockHeader(buffer, position, bitPosition)} :
        IF ~block.ok THEN ReaderAt(block) /\ Throws
        ELSE IF block.type = UNCOMPRESSED
        THEN \E d \in {decodeUncompressedBlock(buffer, block.position, block.bitPosition,
                                               block.uncompressedSize)} :
                 /\ ReaderAt(d)
                 /\ IF ~d.ok THEN Throws
                    ELSE /\ decPc' = "copy"
                         /\ decBlock' = [type |-> block.type,
                                         uncompressedSize |-> block.uncompressedSize,
                                         alignedOffset |-> block.alignedOffset]
                         /\ decBlockData' = d.data
                         /\ UNCHANGED <<decWanted, decResult, decOutputPosition,
                                        decBlockOut, decTree, decWindow>>
        ELSE IF block.type \in {VERBATIM, ALIGNED}
        THEN \E k \in {IF block.type = ALIGNED
                       THEN BitReader_skip(block.position, block.bitPosition,
                                           block.alignedOffset)
                       ELSE [position |-> block.position,
                             bitPosition |-> block.bitPosition]} :
             \E pre \in {readPretreeLengths(buffer, k.position, k.bitPosition)} :
                 /\ ReaderAt(pre)
                 /\ IF ~pre.ok THEN Throws
                    ELSE /\ decPc' = "literalLengths"
                         /\ decBlock' = [type |-> block.type,
                                         uncompressedSize |-> block.uncompressedSize,
                                         alignedOffset |-> block.alignedOffset]
                         /\ decTree' = [count |-> NUM_CHARS, i |-> 0]
                         /\ UNCHANGED <<decWanted, decResult, decOutputPosition,
                                        decBlockData, decBlockOut, decWindow>>
        ELSE ReaderAt(block) /\ Throws
    /\ UNCHANGED offDecodeSteps

\* a turn of the while loop of readTreeLengths
TreeLengthStep ==
    /\ decPc \in {"literalLengths", "lengthLengths"}
    /\ decTree.i < decTree.count
    /\ \E t \in {TreeLengthTurn(buffer, position, bitPosition, decTree.count, decTree.i)} :
           /\ ReaderAt(t)
           /\ IF ~t.ok THEN Throws
              ELSE /\ decTree' = [decTree EXCEPT !.i = t.i]
                   /\ UNCHANGED <<decPc, decWanted, decResult, decOutputPosition, decBlock,
                                  decBlockData, decBlockOut, decWindow>>
    /\ UNCHANGED offDecodeSteps

\* readTreeLengths returns: the length lengths come after the literal
\* lengths, and after them result = Buffer.alloc(uncompressedSize) and the
\* symbol loop of decodeVerbatimBlock
TreeLengthsRead ==
    /\ decPc \in {"literalLengths", "lengthLengths"}
    /\ decTree.i >= decTree.count
    /\ IF decPc = "literalLengths"
       THEN /\ decPc' = "lengthLengths"
            /\ decTree' = [count |-> NUM_PRIMARY_LENGTHS + NUM_SECONDARY_LENGTHS, i |-> 0]
            /\ UNCHANGED <<decBlockData, decBlockOut>>
       ELSE /\ decPc' = "symbols"
            /\ decBlockData' = Zeros(decBlock.uncompressedSize)
            /\ decBlockOut' = 0
            /\ UNCHANGED decTree
    /\ UNCHANGED <<readerVars, decWanted, decResult, decOutputPosition, decBlock,
                   decWindow, offDecodeSteps>>

\* a turn of the symbol loop of decodeVerbatimBlock: a literal, or a match
\* copied out of the window
SymbolStep ==
    /\ decPc = "symbols"
    /\ decBlockOut < decBlock.uncompressedSize
    /\ \E s \in {LZXDecoder_decodeSymbol(buffer, position, bitPosition)} :
        IF ~s.ok THEN ReaderAt(s) /\ Throws
        ELSE IF s.value < NUM_CHARS
        THEN /\ ReaderAt(s)
             /\ decBlockData' = [decBlockData EXCEPT ![decBlockOut + 1] = s.value]
             /\ decBlockOut' = decBlockOut + 1
             /\ UNCHANGED <<decPc, decWanted, decResult, decOutputPosition, decBlock,
                            decTree, decWindow>>
        ELSE \E offset \in {BitReader_read(buffer, s.position, s.bitPosition, 16)} :
             /\ ReaderAt(offset)
             /\ IF ~offset.ok THEN Throws
                ELSE \E c \in {copyData(decWindow, offset.value, s.value - NUM_CHARS + 2)} :
                     IF ~c.ok
                     THEN /\ decPc' = "thrown"
                          /\ decWindow' = c.window
                          /\ UNCHANGED <<decWanted, decResult, decOutputPosition, decBlock,
                                         decBlockData, decBlockOut, decTree>>
                     ELSE /\ decBlockData' =
                                 WriteAt(decBlockData, decBlockOut,
                                         SubSeq(c.data, 1,
                                                Min(Len(c.data),
                                                    decBlock.uncompressedSize - decBlockOut)))
                          /\ decBlockOut' = decBlockOut
                                 + Min(Len(c.data), decBlock.uncompressedSize - decBlockOut)
                          /\ decWindow' = c.window
                          /\ UNCHANGED <<decPc, decWanted, decResult, decOutputPosition,
                                         decBlock, decTree>>
    /\ UNCHANGED offDecodeSteps

\* the symbol loop's test fails: decodeVerbatimBlock returns its result
SymbolsRead ==
    /\ decPc = "symbols"
    /\ decBlockOut >= decBlock.uncompressedSize
    /\ decPc' = "copy"
    /\ UNCHANGED <<readerVars, decWanted, decResult, decOutputPosition, decBlock,
                   decBlockData, decBlockOut, decTree, decWindow, offDecodeSteps>>

\* the rest of the block loop's turn: the block's bytes into result, as far
\* as it has room, and into the window
CopyBlock ==
    /\ decPc = "copy"
    /\ \E bytesToCopy \in {Min(Len(decBlockData), decWanted - decOutputPosition)} :
           /\ decResult' = WriteAt(decResult, decOutputPosition,
                                   SubSeq(decBlockData, 1, bytesToCopy))
           /\ decOutputPosition' = decOutputPosition + bytesToCopy
           /\ decWindow' = SlidingWindow_write(decWindow, SubSeq(decBlockData, 1, bytesToCopy))
    /\ decPc' = "blockLoop"
    /\ UNCHANGED <<readerVars, decWanted, decBlock, decBlockData, decBlockOut, decTree,
                   offDecodeSteps>>

DecodeStepsNext ==
    \/ ReturnResult
    \/ BeginBlock
    \/ TreeLengthStep
    \/ TreeLengthsRead
    \/ SymbolStep
    \/ SymbolsRead
    \/ CopyBlock

SpecDecodeSteps == DecodeStepsInit /\ [][DecodeStepsNext]_vars

\* decode is one synchronous call: a step that can be taken is taken
SpecDecodeRuns == SpecDecodeSteps /\ WF_vars(DecodeStepsNext)

(***************************************************************************)
(* Claims about the decoder's loops (checked under SpecDecodeRuns).        *)
(***************************************************************************)
\* C28: LZXDecoder.decode ends on every input and every size n >= 0, with
\* exactly n bytes returned or with an error; no loop of it goes on for ever,
\* also when a block has the uncompressed size 0 or a tree-length code is
\* above 19.
C28_DecodeTerminates ==
    /\ <>(decPc \in {"returned", "thrown"})
    /\ [](decPc = "returned" => Len(decResult) = decWanted)

\* decode threw at the end of the input after blocks of size 0
C28_Witness ==
    /\ decPc = "thrown"
    /\ decWanted > 0
    /\ decBlock.type = UNCOMPRESSED
    /\ decBlock.uncompressedSize = 0
    /\ position >= 3 * 4

====
